---- MODULE Spec2Model ----
(***************************************************************************)
(* Configuration persistence and recovery engine of cc-switch:             *)
(*   src-tauri/src/config_backup.rs  (ConfigBackupManager)                 *)
(*   src-tauri/src/app_config.rs     (MultiAppConfig)                      *)
(*                                                                         *)
(* The file system is the state: the live config file, its temporary and   *)
(* emergency siblings, the backups directory (payloads and metadata        *)
(* sidecars keyed by the timestamp embedded in their names) and the v1     *)
(* migration sidecars.  Every handler is a sequence of steps, one per file *)
(* system call, so that an interruption (Crash) or an I/O failure can fall *)
(* between any two of them.  The process is single threaded: one handler   *)
(* runs at a time (pc = "idle" between handlers).                          *)
(***************************************************************************)
EXTENDS Integers, Sequences, FiniteSets, TLC

(***************************************************************************)
(* Bounds of the model.                                                    *)
(***************************************************************************)
\* seconds the wall clock may advance past its initial value
ClockSpan == 1
\* top-level operations (save, load, restore) started in one behaviour
MaxOps == 2
\* injected I/O failures and external corruptions in one behaviour
MaxFaults == 2
\* helper-service commands that can run at the same time
MaxThreads == 2
\* helper-service commands invoked in one behaviour
MaxCommands == 3
\* calls on the Factory configuration in one behaviour
MaxCalls == 3

(***************************************************************************)
(* Program constants.                                                      *)
(***************************************************************************)
\* config_backup.rs:32   max_backups: 10
max_backups == 10
\* app_config.rs:66-68   fn default_version() -> u32 { 2 }
default_version == 2
\* droid2api_service.rs:212   let max_attempts = 10;
max_attempts == 10

\* the wall clock, in whole seconds (SystemTime::now().as_secs()); the
\* initial states are taken at second max_backups, so that a backup
\* directory filled by earlier runs (one backup per second) fits before it
LastSecond == max_backups + ClockSpan
Seconds == 1..LastSecond
\* the seconds a restore is asked for, and the backups the environment damages
RecentSeconds == max_backups..LastSecond

(***************************************************************************)
(* JSON texts.  A file holds either bytes that are not JSON ("garbage") or *)
(* a JSON object.  An object is described by what the deserializers of the *)
(* program look at: `reg` is the registry formed by its top-level          *)
(* providers/current fields (NoReg when it has none: the flat v1 shape is  *)
(* an object that has them), and `entries` are its other top-level members *)
(* in textual order, duplicates included.  A member value is a number, a   *)
(* registry object, an McpRoot object or a DroidManagerConfig object.      *)
(* Members of a HashMap are written in an arbitrary order; texts are       *)
(* identified up to that order (KeyOrder fixes a representative).          *)
(***************************************************************************)
NoReg == "-"
Num(n) == [kind |-> "num", num |-> n, str |-> ""]
RegVal(r) == [kind |-> "reg", num |-> 0, str |-> r]
McpVal(m) == [kind |-> "mcp", num |-> 0, str |-> m]
DroidVal(d) == [kind |-> "droid", num |-> 0, str |-> d]
Member(k, v) == [k |-> k, v |-> v]

Absent == [kind |-> "absent", reg |-> NoReg, entries |-> <<>>]
Garbage == [kind |-> "garbage", reg |-> NoReg, entries |-> <<>>]
Obj(reg, entries) == [kind |-> "obj", reg |-> reg, entries |-> entries]

\* serde_json::from_str::<serde_json::Value>: is the text well-formed JSON
IsJson(text) == text.kind = "obj"

(***************************************************************************)
(* Documents (MultiAppConfig).  ProviderManager, McpRoot and               *)
(* DroidManagerConfig values are opaque; "R0" and "M0" are the defaults,   *)
(* "none" is droid_manager = None.                                         *)
(***************************************************************************)
DefaultRegistry == "R0"
DefaultMcp == "M0"
NoDroid == "none"
EmptyApps == [k \in {} |-> DefaultRegistry]
MkDoc(v, apps, mcp, droid) == [version |-> v, apps |-> apps, mcp |-> mcp, droid |-> droid]
\* no document (nothing loaded, or an operation that returns none)
NoDoc == MkDoc(0, EmptyApps, "", "")

\* impl Default for MultiAppConfig
DefaultDoc ==
    MkDoc(2, [k \in {"claude", "codex"} |-> DefaultRegistry], DefaultMcp, NoDroid)

\* the order in which the members of `apps` are written
KeyOrder == <<"claude", "codex", "mcp">>

RECURSIVE AppMembers(_, _)
AppMembers(apps, i) ==
    IF i > Len(KeyOrder) THEN <<>>
    ELSE (IF KeyOrder[i] \in DOMAIN apps
            THEN <<Member(KeyOrder[i], RegVal(apps[KeyOrder[i]]))>>
            ELSE <<>>) \o AppMembers(apps, i + 1)

\* #[derive(Serialize)] for MultiAppConfig + serde_json::to_string_pretty:
\* version, then the flattened apps, then mcp, then droid_manager unless None
Serialize(d) ==
    Obj(NoReg,
        <<Member("version", Num(d.version))>>
        \o AppMembers(d.apps, 1)
        \o <<Member("mcp", McpVal(d.mcp))>>
        \o (IF d.droid = NoDroid THEN <<>>
            ELSE <<Member("droid_manager", DroidVal(d.droid))>>))

(***************************************************************************)
(* #[derive(Deserialize)] for MultiAppConfig.  The members are visited in  *)
(* textual order: version, mcp and droid_manager are the named fields (a   *)
(* second occurrence is a duplicate-field error); every other member is    *)
(* collected by the flattened `apps` map and must be a ProviderManager.    *)
(* acc.ver = 0, acc.mcp = "", acc.droid = "" mark a field not seen yet.    *)
(***************************************************************************)
ParseFail == [ok |-> FALSE, doc |-> NoDoc]
ParseOk(d) == [ok |-> TRUE, doc |-> d]

\* Deserialize for McpRoot: every field has #[serde(default)] and unknown
\* fields are ignored, so any object is accepted (app_config.rs:13-19)
McpOf(v) == IF v.kind = "mcp" THEN v.str ELSE DefaultMcp

RECURSIVE VisitMembers(_, _, _)
VisitMembers(entries, i, acc) ==
    IF i > Len(entries) THEN ParseOk(acc)
    ELSE LET e == entries[i] IN
      CASE e.k = "version" ->
             IF acc.version # 0 \/ e.v.kind # "num" THEN ParseFail
             ELSE VisitMembers(entries, i + 1, [acc EXCEPT !.version = e.v.num])
        [] e.k = "mcp" ->
             IF acc.mcp # "" \/ e.v.kind = "num" THEN ParseFail
             ELSE VisitMembers(entries, i + 1, [acc EXCEPT !.mcp = McpOf(e.v)])
        [] e.k = "droid_manager" ->
             IF acc.droid # "" \/ e.v.kind # "droid" THEN ParseFail
             ELSE VisitMembers(entries, i + 1, [acc EXCEPT !.droid = e.v.str])
        [] OTHER ->
             IF e.v.kind # "reg" THEN ParseFail
             ELSE VisitMembers(entries, i + 1,
                    [acc EXCEPT !.apps = [k \in DOMAIN acc.apps \cup {e.k} |->
                                            IF k = e.k THEN e.v.str ELSE acc.apps[k]]])

\* the defaults of the fields the text does not carry
FillDefaults(acc) ==
    MkDoc(IF acc.version = 0 THEN default_version ELSE acc.version,
          acc.apps,
          IF acc.mcp = "" THEN DefaultMcp ELSE acc.mcp,
          IF acc.droid = "" THEN NoDroid ELSE acc.droid)

\* serde_json::from_str::<MultiAppConfig>(&content)
ParseV2(text) ==
    IF ~IsJson(text) \/ text.reg # NoReg THEN ParseFail
    ELSE LET r == VisitMembers(text.entries, 1, NoDoc) IN
         IF r.ok THEN ParseOk(FillDefaults(r.doc)) ELSE ParseFail

\* a ProviderManager whose fields all have defaults: any object is one
ParseV1_AnyObject(text) ==
    IF IsJson(text)
      THEN [ok |-> TRUE, reg |-> IF text.reg = NoReg THEN DefaultRegistry ELSE text.reg]
      ELSE [ok |-> FALSE, reg |-> NoReg]

\* serde_json::from_str::<ProviderManager>(&content): the flat single-client
\* registry; members it does not know are ignored
ParseV1(text) ==
    IF IsJson(text) /\ text.reg # NoReg
      THEN [ok |-> TRUE, reg |-> text.reg]
      ELSE [ok |-> FALSE, reg |-> NoReg]

\* a migration that files the v1 registry under codex
MigratedDoc_UnderCodex(reg) ==
    MkDoc(2, [k \in {"claude", "codex"} |-> IF k = "codex" THEN reg ELSE DefaultRegistry],
          DefaultMcp, NoDroid)

\* the v2 document the migration builds (app_config.rs:124-134)
MigratedDoc(reg) ==
    MkDoc(2, [k \in {"claude", "codex"} |-> IF k = "claude" THEN reg ELSE DefaultRegistry],
          DefaultMcp, NoDroid)

(***************************************************************************)
(* Inputs.  The application mutates the in-memory document through the     *)
(* public fields and accessors of MultiAppConfig; other programs (or a     *)
(* failing disk) can leave any bytes in the live file.                     *)
(***************************************************************************)
DocA == MkDoc(2, [k \in {"claude", "codex"} |-> IF k = "claude" THEN "R1" ELSE "R0"],
              "M1", "D1")
\* an app registered under the name of one of the document's own fields
DocReserved == MkDoc(2, [k \in {"claude", "mcp"} |-> IF k = "mcp" THEN "R1" ELSE "R0"],
                     DefaultMcp, NoDroid)
\* a v2-shaped document carrying an older version tag and a single app
DocOld == MkDoc(1, [k \in {"claude"} |-> "R1"], DefaultMcp, NoDroid)
Docs == {DefaultDoc, DocA, DocReserved, DocOld}

\* a flat v1 registry file
V1Text == Obj("R1", <<>>)
\* well-formed JSON that is neither a registry nor a document
OtherJson == Obj(NoReg, <<Member("note", Num(7))>>)
\* a document file with an older version tag and no codex entry (hand edited,
\* or written by another release)
OldTagged == Obj(NoReg, <<Member("version", Num(1)), Member("claude", RegVal("R1"))>>)
\* a flat v1 registry that also carries a version field and an app entry
HybridText == Obj("R1", <<Member("version", Num(2)), Member("claude", RegVal("R0"))>>)
ForeignTexts == {Garbage, V1Text, OtherJson, OldTagged, HybridText}

(***************************************************************************)
(* State.                                                                  *)
(***************************************************************************)
VARIABLES
    live,       \* config_path: the text it holds, or Absent
    tmp,        \* config_path.with_extension("tmp")
    emergency,  \* config_path.with_extension("emergency_backup.json")
    dirExists,  \* whether backup_dir exists
    payload,    \* backup_dir/config_backup_<s>.json, by second s
    meta,       \* backup_dir/config_backup_<s>.meta.json, by second s
    v1side,     \* config.v1.backup.<s>.json, by second s
    clock,      \* SystemTime::now(), in seconds
    mem,        \* the document the application holds in memory
    pc,         \* the step the running handler is at ("idle": none runs)
    loc,        \* the running handler's locals
    ret,        \* what the last handler returned
    hist,       \* history: what the file system held when the handler began
    budget,     \* operations and faults left (bounds of the model)
    \* the helper service (droid2api_service.rs)
    process,    \* Droid2ApiService.process: the Child stored (its pid), or 0 for None
    status,     \* Droid2ApiService.status: ServiceStatus
    locked,     \* the owner of each of the two mutexes (0: free)
    children,   \* the child processes spawned so far, by pid
    task,       \* the command each invocation slot is running, and where it is
    issued,     \* the number of commands invoked so far
    \* the Factory configuration (droid_config.rs)
    factory_config, \* ~/.factory/config.json
    factory_bak,    \* ~/.factory/config.json.bak
    factory_ret,    \* what the last call on the Factory configuration returned
    factory_hist    \* history: the models of the file before the first call

files == <<live, tmp, emergency, dirExists, payload, meta, v1side>>
\* the persistence engine (app_config.rs, config_backup.rs)
engine == <<live, tmp, emergency, dirExists, payload, meta, v1side,
            clock, mem, pc, loc, ret, hist, budget>>
service == <<process, status, locked, children, task, issued>>
factory == <<factory_config, factory_bak, factory_ret, factory_hist>>
vars == <<live, tmp, emergency, dirExists, payload, meta, v1side,
          clock, mem, pc, loc, ret, hist, budget,
          process, status, locked, children, task, issued,
          factory_config, factory_bak, factory_ret, factory_hist>>

(***************************************************************************)
(* BackupMetadata and its sidecar file.                                    *)
(***************************************************************************)
\* fs::metadata(..).len(): the byte length of a text
FileSize(text) ==
    IF text.kind = "obj"
      THEN 2 + (IF text.reg = NoReg THEN 0 ELSE 2) + Len(text.entries)
      ELSE 1
\* calculate_checksum: DefaultHasher over the bytes (taken collision free)
calculate_checksum(text) == [hash |-> text]

NoMeta == [state |-> "absent", timestamp |-> 0, file_size |-> 0,
           checksum |-> calculate_checksum(Absent), backup_path |-> 0]
MalformedMeta == [NoMeta EXCEPT !.state = "malformed"]
\* a sidecar fs::read_to_string cannot read
UnreadableMeta == [NoMeta EXCEPT !.state = "unreadable"]
\* the record create_backup builds for the copy at second s
BackupMetadata(s, text) ==
    [state |-> "ok", timestamp |-> s, file_size |-> FileSize(text),
     checksum |-> calculate_checksum(text), backup_path |-> s]

RECURSIVE SortDesc(_)
SortDesc(S) ==
    IF S = {} THEN <<>>
    ELSE LET m == CHOOSE x \in S : \A y \in S : y.timestamp <= x.timestamp
         IN <<m>> \o SortDesc(S \ {m})

\* a listing that keeps the record of every sidecar it finds
list_backups_NoSkip ==
    IF ~dirExists THEN <<>>
    ELSE SortDesc({meta[s] : s \in {t \in Seconds : meta[t].state # "absent"}})

\* list_backups: the well-formed sidecars, newest first
list_backups ==
    IF ~dirExists THEN <<>>
    ELSE SortDesc({meta[s] : s \in {t \in Seconds : meta[t].state = "ok"}})

(***************************************************************************)
(* The helper service (droid2api_service.rs): its state.                   *)
(***************************************************************************)
Threads == 1..MaxThreads
\* the pids of the children spawned in one behaviour
Pids == 1..MaxCommands
Commands == {"start", "stop", "get_status"}
Mutexes == {"process", "status"}

\* struct ServiceStatus; pid 0 is None
ServiceStatus(running, pid) == [running |-> running, port |-> 3000, pid |-> pid]
\* what a command returns: Ok(status_guard.clone()) or Err(String)
NoResult == [kind |-> "none", status |-> ServiceStatus(FALSE, 0)]
OkStatus(st) == [kind |-> "ok", status |-> st]
ErrResult == [kind |-> "err", status |-> ServiceStatus(FALSE, 0)]

\* an invocation slot; child and killed keep what stop took and how its kill
\* ended, spawned the pid start spawned (history of the last command)
IdleTask == [cmd |-> "none", pc |-> "idle", todo |-> <<>>, attempts |-> 0,
             child |-> 0, killed |-> "none", spawned |-> 0, ret |-> NoResult]

\* Droid2ApiService::new
ServiceNew ==
    /\ process = 0
    /\ status = ServiceStatus(FALSE, 0)
    /\ locked = [m \in Mutexes |-> 0]
    /\ children = [p \in Pids |-> "none"]
    /\ task = [t \in Threads |-> IdleTask]
    /\ issued = 0

(***************************************************************************)
(* The Factory configuration (droid_config.rs): ~/.factory/config.json     *)
(* holds a DroidConfig.  A display name is the sequence of its words; the  *)
(* fields of a model that no code of this file looks at (model, base_url,  *)
(* provider, max_tokens, supports_prompt_caching) are left out.  `by` is   *)
(* history: whether apply_provider_to_factory made the model or it was in  *)
(* the file before.                                                        *)
(***************************************************************************)
\* Option<T>
None == <<>>
Some(x) == <<x>>
unwrap_or(o, d) == IF o = None THEN d ELSE o[1]

\* str::contains, on whole words
Contains(name, word) == \E i \in 1..Len(name) : name[i] = word

DroidCustomModel(name, key, by) == [model_display_name |-> name, api_key |-> key, by |-> by]

\* the providers the application applies
Providers ==
    [api_key : {"k1", "k2"},
     model_display_name : {None, Some(<<"Opus", "[D]">>), Some(<<"My", "Model">>)}]

\* models the user keeps in the file
UserPlain == DroidCustomModel(<<"Local", "GPT">>, "u1", "user")
UserTagged == DroidCustomModel(<<"Team", "[D]">>, "u2", "user")

\* the file: absent, bytes that are not a DroidConfig (`models` is what a
\* reader of the text finds in it), or a DroidConfig
NoFile == [kind |-> "absent", models |-> <<>>]
NotDroidConfig(models) == [kind |-> "other", models |-> models]
ConfigFile(models) == [kind |-> "config", models |-> models]

\* no call on the Factory configuration has been made
FactoryUntouched ==
    /\ factory_config = NoFile
    /\ factory_bak = NoFile
    /\ factory_ret = "none"
    /\ factory_hist = [orig |-> <<>>, calls |-> 0, failed |-> FALSE]

(***************************************************************************)
(* Initial states: a fresh installation (no file at all), an installation  *)
(* whose live file holds the default document, with a backup directory     *)
(* that is missing or was filled by max_backups earlier saves, one per     *)
(* second, or an installation of the previous release (a flat v1 file).    *)
(***************************************************************************)
IdleLoc == [top |-> "none", saving |-> NoDoc, ts |-> 0, todo |-> <<>>,
            rpath |-> 0, recovering |-> FALSE, restored |-> FALSE, made |-> NoMeta]
NoRet == [op |-> "none", status |-> "none", doc |-> NoDoc, backups |-> <<>>,
          record |-> NoMeta]
\* history variables (they record, and never steer, the program):
\*   opPre, faults0     the live file and the faults left when the operation began
\*   tmpPre             the temporary file when the operation began
\*   savePre, stage     the live file when safe_save began, and how far it got
\*   pred, writer       the text the last write of the live file replaced, and
\*                      the handler that wrote
\*   verifyFailed, listed, newest, usable
\*                      load(): verify_config failed; the backups then listed,
\*                      the newest one's payload, whether one parses as v2
\*   recovered          load(): restore_from_latest succeeded
\*   migrated           load(): the v1 migration ran
\*   saved              the document of the last successful save() while the
\*                      live file still holds what it wrote
\*   v1copy             load(): how the copy to the v1 sidecar ended
\*   migratedTo         the document of the last migrating load() while the
\*                      live file still holds what it wrote
\*   ensPre, ensKey     ensure_app: the document before the call, and the key
\*   retry              load(): the load() just before it returned the error of
\*                      its migration save
\*   track, streak, pre consecutive successful saves and the texts they replaced
NoHist == [opPre |-> Absent, tmpPre |-> Absent, faults0 |-> 0, savePre |-> Absent, stage |-> "none",
           pred |-> Absent, writer |-> "init",
           verifyFailed |-> FALSE, listed |-> 0, newest |-> Absent, usable |-> FALSE,
           recovered |-> FALSE, migrated |-> FALSE, saved |-> NoDoc,
           v1copy |-> "none", migratedTo |-> NoDoc, ensPre |-> NoDoc, ensKey |-> "",
           retry |-> FALSE, track |-> FALSE, streak |-> 0, pre |-> <<>>]

NoBackups == [s \in Seconds |-> Absent]
NoSidecars == [s \in Seconds |-> NoMeta]
FullPayloads == [s \in Seconds |-> IF s <= max_backups THEN Serialize(DefaultDoc) ELSE Absent]
FullSidecars == [s \in Seconds |-> IF s <= max_backups
                                     THEN BackupMetadata(s, Serialize(DefaultDoc))
                                     ELSE NoMeta]

InitCommon ==
    /\ tmp = Absent
    /\ emergency = Absent
    /\ v1side = NoBackups
    /\ clock = max_backups
    /\ pc = "idle"
    /\ loc = IdleLoc
    /\ ret = NoRet

Init ==
    /\ InitCommon
    /\ ServiceNew
    /\ FactoryUntouched
    /\ \/ live = Absent /\ dirExists = FALSE /\ payload = NoBackups /\ meta = NoSidecars
       \/ live = Serialize(DefaultDoc) /\ dirExists = FALSE
          /\ payload = NoBackups /\ meta = NoSidecars
       \/ live = Serialize(DefaultDoc) /\ dirExists = TRUE
          /\ payload = FullPayloads /\ meta = FullSidecars
       \/ live = V1Text /\ dirExists = FALSE /\ payload = NoBackups /\ meta = NoSidecars
    /\ mem = NoDoc
    /\ hist = NoHist
    /\ budget = [ops |-> MaxOps, faults |-> MaxFaults]

(***************************************************************************)
(* Control.                                                                *)
(***************************************************************************)
\* the outcomes of one file system call: it may fail while faults are left
Outcomes == IF budget.faults > 0 THEN {"ok", "fail"} ELSE {"ok"}
\* fs::copy and fs::write may also fail after truncating the destination
WriteOutcomes == IF budget.faults > 0 THEN {"ok", "fail", "partial"} ELSE {"ok"}
\* list_backups: fs::read_dir is called, and may fail, only when the backup
\* directory exists
ReadDirOutcomes == IF dirExists THEN Outcomes ELSE {"ok"}
Spend(o) == budget' = IF o = "ok" THEN budget ELSE [budget EXCEPT !.faults = @ - 1]

\* the running handler goes on at step p with locals l
Goto(p, l) == pc' = p /\ loc' = l /\ ret' = ret /\ mem' = mem

\* the top-level handler returns; load() hands the document to the application
Done(outcome, doc) ==
    /\ pc' = "idle"
    /\ loc' = IdleLoc
    /\ ret' = [op |-> loc.top, status |-> outcome, doc |-> doc, backups |-> <<>>,
               record |-> IF loc.top = "backup" /\ outcome = "ok" THEN loc.made ELSE NoMeta]
    /\ mem' = IF loc.top = "load" /\ outcome = "ok" THEN doc ELSE mem

\* an error that is swallowed: the handler answers Ok
Fail_Swallowed == Done("ok", NoDoc)

\* an error of the recovery that load() does not catch
Fail_Propagated == Done("err", NoDoc)

\* a load that answers the migrated document although saving it failed
Fail_MigrationSaveIgnored ==
    IF loc.top = "load" /\ loc.recovering
      THEN Done("ok", DefaultDoc)
      ELSE IF loc.top = "load" /\ loc.saving # NoDoc
        THEN Done("ok", loc.saving)
        ELSE Done("err", NoDoc)

\* an Err(..) travels up through the `?` of every caller; load() alone catches
\* the error of restore_from_latest and answers with the default document
\* (app_config.rs:107-110)
Fail ==
    IF loc.top = "load" /\ loc.recovering
      THEN Done("ok", DefaultDoc)
      ELSE Done("err", NoDoc)

\* create_backup returns Ok(backup_meta): safe_save drops the record and goes
\* on to serialize, a direct call returns it to the application
BackupCreated(l) ==
    IF loc.top = "backup" THEN Done("ok", NoDoc)
    ELSE Goto("ss_write", [l EXCEPT !.made = NoMeta])

\* history of an operation: reset between operations, set when one starts
Forgot == [hist EXCEPT !.opPre = Absent, !.tmpPre = Absent, !.faults0 = 0, !.savePre = Absent,
                       !.stage = "none", !.pred = Absent, !.writer = "init",
                       !.verifyFailed = FALSE, !.listed = 0, !.newest = Absent,
                       !.usable = FALSE, !.recovered = FALSE, !.migrated = FALSE,
                       !.v1copy = "none", !.ensPre = NoDoc, !.ensKey = "",
                       !.retry = FALSE]
Began == [Forgot EXCEPT !.opPre = live, !.tmpPre = tmp, !.faults0 = budget.faults]

(***************************************************************************)
(* ConfigBackupManager::safe_save, create_backup, cleanup_old_backups.     *)
(***************************************************************************)
\* MultiAppConfig::save (app_config.rs:163-172)
save ==
    /\ pc = "idle" /\ budget.ops > 0 /\ mem # NoDoc
    /\ pc' = "ss_begin"
    /\ loc' = [IdleLoc EXCEPT !.top = "save", !.saving = mem]
    /\ ret' = NoRet
    /\ hist' = Began
    /\ budget' = [budget EXCEPT !.ops = @ - 1]
    /\ UNCHANGED <<service, factory, files, clock, mem>>

\* safe_save without its backup step
safe_save_begin_NoBackup ==
    /\ pc = "ss_begin"
    /\ Goto("ss_write", loc)
    /\ hist' = [hist EXCEPT !.savePre = live, !.stage = "begun"]
    /\ UNCHANGED <<service, factory, files, clock, budget>>

\* safe_save: if self.config_path.exists() { self.create_backup()?; }
safe_save_begin ==
    /\ pc = "ss_begin"
    /\ Goto(IF live # Absent THEN "cb_begin" ELSE "ss_write", loc)
    /\ hist' = [hist EXCEPT !.savePre = live, !.stage = "begun"]
    /\ UNCHANGED <<service, factory, files, clock, budget>>

\* ConfigBackupManager::create_backup called by the application
backup ==
    /\ pc = "idle" /\ budget.ops > 0
    /\ pc' = "cb_begin"
    /\ loc' = [IdleLoc EXCEPT !.top = "backup"]
    /\ ret' = NoRet
    /\ hist' = Began
    /\ budget' = [budget EXCEPT !.ops = @ - 1]
    /\ UNCHANGED <<service, factory, files, clock, mem>>

\* create_backup without the check that the live file exists
create_backup_begin_NoExistsCheck ==
    /\ pc = "cb_begin"
    /\ \E o \in Outcomes :
         /\ Spend(o)
         /\ dirExists' = (dirExists \/ o = "ok")
         /\ IF o = "ok" THEN Goto("cb_copy", [loc EXCEPT !.ts = clock]) ELSE Fail
    /\ UNCHANGED <<service, factory, live, tmp, emergency, payload, meta, v1side, clock, hist>>

\* create_backup: the existence check, ensure_backup_dir, the timestamp
create_backup_begin ==
    /\ pc = "cb_begin"
    /\ IF live = Absent
         THEN Fail /\ UNCHANGED <<dirExists, budget>>
         ELSE \E o \in Outcomes :
                /\ Spend(o)
                /\ dirExists' = (dirExists \/ o = "ok")
                /\ IF o = "ok" THEN Goto("cb_copy", [loc EXCEPT !.ts = clock]) ELSE Fail
    /\ UNCHANGED <<service, factory, live, tmp, emergency, payload, meta, v1side, clock, hist>>

\* create_backup: fs::copy(&self.config_path, &backup_path)
create_backup_copy ==
    /\ pc = "cb_copy"
    /\ \E o \in WriteOutcomes :
         /\ Spend(o)
         /\ payload' = CASE o = "ok" -> [payload EXCEPT ![loc.ts] = live]
                         [] o = "partial" -> [payload EXCEPT ![loc.ts] = Garbage]
                         [] OTHER -> payload
         /\ IF o = "ok" THEN Goto("cb_meta", loc) ELSE Fail
    /\ UNCHANGED <<service, factory, live, tmp, emergency, dirExists, meta, v1side, clock, hist>>

\* a create_backup that leaves a sidecar already at the path as it is
create_backup_meta_KeepsExisting ==
    /\ pc = "cb_meta"
    /\ \E o \in Outcomes :
         /\ Spend(o)
         /\ LET backup_meta == BackupMetadata(loc.ts, payload[loc.ts]) IN
              /\ meta' = IF o = "ok" /\ meta[loc.ts].state = "absent"
                           THEN [meta EXCEPT ![loc.ts] = backup_meta]
                           ELSE meta
              /\ IF o = "ok" THEN Goto("cu_begin", [loc EXCEPT !.made = backup_meta])
                 ELSE Fail
    /\ UNCHANGED <<service, factory, live, tmp, emergency, dirExists, payload, v1side, clock, hist>>

\* create_backup: the record is built from the size and checksum of the copy
\* at backup_path, then written to the sidecar
create_backup_meta ==
    /\ pc = "cb_meta"
    /\ \E o \in Outcomes :
         /\ Spend(o)
         /\ LET backup_meta == BackupMetadata(loc.ts, payload[loc.ts]) IN
              /\ meta' = IF o = "ok" THEN [meta EXCEPT ![loc.ts] = backup_meta] ELSE meta
              /\ IF o = "ok" THEN Goto("cu_begin", [loc EXCEPT !.made = backup_meta])
                 ELSE Fail
    /\ UNCHANGED <<service, factory, live, tmp, emergency, dirExists, payload, v1side, clock, hist>>

\* a cleanup that drops the entries at the head of the listing
cleanup_old_backups_begin_DropsNewest ==
    /\ pc = "cu_begin"
    /\ \E o \in ReadDirOutcomes :
         /\ Spend(o)
         /\ LET backups == list_backups IN
              IF o # "ok" THEN Fail
              ELSE IF Len(backups) <= max_backups
                THEN BackupCreated(loc)
                ELSE Goto("cu_payload",
                          [loc EXCEPT !.todo = SubSeq(backups, 1, Len(backups) - max_backups)])
    /\ UNCHANGED <<service, factory, files, clock, hist>>

\* cleanup_old_backups: the entries past the max_backups newest are to go
cleanup_old_backups_begin ==
    /\ pc = "cu_begin"
    /\ \E o \in ReadDirOutcomes :
         /\ Spend(o)
         /\ LET backups == list_backups IN
              IF o # "ok" THEN Fail
              ELSE IF Len(backups) <= max_backups
                THEN BackupCreated(loc)
                ELSE Goto("cu_payload",
                          [loc EXCEPT !.todo = SubSeq(backups, max_backups + 1, Len(backups))])
    /\ UNCHANGED <<service, factory, files, clock, hist>>

\* cleanup_old_backups: fs::remove_file(&backup_path) if it exists
cleanup_remove_payload ==
    /\ pc = "cu_payload"
    /\ LET s == Head(loc.todo).backup_path IN
         IF payload[s] = Absent
           THEN Goto("cu_meta", loc) /\ UNCHANGED <<payload, budget>>
           ELSE \E o \in Outcomes :
                  /\ Spend(o)
                  /\ payload' = IF o = "ok" THEN [payload EXCEPT ![s] = Absent] ELSE payload
                  /\ IF o = "ok" THEN Goto("cu_meta", loc) ELSE Fail
    /\ UNCHANGED <<service, factory, live, tmp, emergency, dirExists, meta, v1side, clock, hist>>

\* a cleanup that goes on to the next entry when a sidecar cannot be removed
cleanup_remove_meta_BestEffort ==
    /\ pc = "cu_meta"
    /\ LET s == Head(loc.todo).backup_path
           rest == Tail(loc.todo)
           next == IF rest = <<>> THEN BackupCreated([loc EXCEPT !.todo = rest])
                   ELSE Goto("cu_payload", [loc EXCEPT !.todo = rest])
       IN
         IF meta[s].state = "absent"
           THEN next /\ UNCHANGED <<meta, budget>>
           ELSE \E o \in Outcomes :
                  /\ Spend(o)
                  /\ meta' = IF o = "ok" THEN [meta EXCEPT ![s] = NoMeta] ELSE meta
                  /\ next
    /\ UNCHANGED <<service, factory, live, tmp, emergency, dirExists, payload, v1side, clock, hist>>

\* cleanup_old_backups: fs::remove_file(&meta_path) if it exists, next entry
cleanup_remove_meta ==
    /\ pc = "cu_meta"
    /\ LET s == Head(loc.todo).backup_path
           rest == Tail(loc.todo)
           next == IF rest = <<>> THEN BackupCreated([loc EXCEPT !.todo = rest])
                   ELSE Goto("cu_payload", [loc EXCEPT !.todo = rest])
       IN
         IF meta[s].state = "absent"
           THEN next /\ UNCHANGED <<meta, budget>>
           ELSE \E o \in Outcomes :
                  /\ Spend(o)
                  /\ meta' = IF o = "ok" THEN [meta EXCEPT ![s] = NoMeta] ELSE meta
                  /\ IF o = "ok" THEN next ELSE Fail
    /\ UNCHANGED <<service, factory, live, tmp, emergency, dirExists, payload, v1side, clock, hist>>

\* safe_save writing the new text straight to the live file
safe_save_write_InPlace ==
    /\ pc = "ss_write"
    /\ \E o \in WriteOutcomes :
         /\ Spend(o)
         /\ live' = CASE o = "ok" -> Serialize(loc.saving)
                      [] o = "partial" -> Garbage
                      [] OTHER -> live
         /\ tmp' = live'
         /\ hist' = IF o = "ok" THEN [hist EXCEPT !.stage = "written"] ELSE hist
         /\ IF o = "ok" THEN Goto("ss_verify", loc) ELSE Fail
    /\ UNCHANGED <<service, factory, emergency, dirExists, payload, meta, v1side, clock>>

\* safe_save: serialize, fs::write(&temp_path, &json_content)
safe_save_write ==
    /\ pc = "ss_write"
    /\ \E o \in WriteOutcomes :
         /\ Spend(o)
         /\ tmp' = CASE o = "ok" -> Serialize(loc.saving)
                     [] o = "partial" -> Garbage
                     [] OTHER -> tmp
         /\ hist' = IF o = "ok" THEN [hist EXCEPT !.stage = "written"] ELSE hist
         /\ IF o = "ok" THEN Goto("ss_verify", loc) ELSE Fail
    /\ UNCHANGED <<service, factory, live, emergency, dirExists, payload, meta, v1side, clock>>

\* safe_save: the temporary file is read back and parsed
safe_save_verify ==
    /\ pc = "ss_verify"
    /\ \E o \in Outcomes :
         /\ Spend(o)
         /\ IF o = "ok" /\ IsJson(tmp) THEN Goto("ss_rename", loc) ELSE Fail
    /\ UNCHANGED <<service, factory, files, clock, hist>>

\* a safe_save that copies the temporary file over the live file and leaves it
safe_save_rename_Copying ==
    /\ pc = "ss_rename"
    /\ \E o \in Outcomes :
         /\ Spend(o)
         /\ live' = IF o = "ok" THEN tmp ELSE live
         /\ tmp' = tmp
         /\ hist' = IF o = "ok"
                      THEN [hist EXCEPT !.pred = live, !.writer = "save",
                              !.stage = "renamed",
                              !.saved = IF loc.top = "save" THEN loc.saving ELSE NoDoc,
                              !.migratedTo = IF loc.top = "load" THEN loc.saving ELSE NoDoc,
                              !.streak = IF hist.track THEN @ + 1 ELSE @,
                              !.pre = IF hist.track THEN Append(@, live) ELSE @]
                      ELSE hist
         /\ IF o = "ok" THEN Done("ok", IF loc.top = "load" THEN loc.saving ELSE NoDoc)
            ELSE Fail
    /\ UNCHANGED <<service, factory, emergency, dirExists, payload, meta, v1side, clock>>

\* safe_save: fs::rename(&temp_path, &self.config_path), then Ok(())
safe_save_rename ==
    /\ pc = "ss_rename"
    /\ \E o \in Outcomes :
         /\ Spend(o)
         /\ live' = IF o = "ok" THEN tmp ELSE live
         /\ tmp' = IF o = "ok" THEN Absent ELSE tmp
         /\ hist' = IF o = "ok"
                      THEN [hist EXCEPT !.pred = live, !.writer = "save",
                              !.stage = "renamed",
                              !.saved = IF loc.top = "save" THEN loc.saving ELSE NoDoc,
                              !.migratedTo = IF loc.top = "load" THEN loc.saving ELSE NoDoc,
                              !.streak = IF hist.track THEN @ + 1 ELSE @,
                              !.pre = IF hist.track THEN Append(@, live) ELSE @]
                      ELSE hist
         /\ IF o = "ok" THEN Done("ok", IF loc.top = "load" THEN loc.saving ELSE NoDoc)
            ELSE Fail
    /\ UNCHANGED <<service, factory, emergency, dirExists, payload, meta, v1side, clock>>

(***************************************************************************)
(* ConfigBackupManager::restore_from_latest, restore_from_backup.          *)
(***************************************************************************)
\* MultiAppConfig::restore_from_backup(backup_path) (app_config.rs:182-186)
restore ==
    /\ pc = "idle" /\ budget.ops > 0
    /\ \E s \in RecentSeconds :
         loc' = [IdleLoc EXCEPT !.top = "restore", !.rpath = s]
    /\ pc' = "rb_begin"
    /\ ret' = NoRet
    /\ hist' = Began
    /\ budget' = [budget EXCEPT !.ops = @ - 1]
    /\ UNCHANGED <<service, factory, files, clock, mem>>

\* restore_from_latest taking the last entry of the listing
restore_from_latest_Oldest ==
    /\ pc = "rl_begin"
    /\ \E o \in ReadDirOutcomes :
         /\ Spend(o)
         /\ LET backups == list_backups IN
              IF o # "ok" \/ backups = <<>>
                THEN Fail
                ELSE Goto("rb_begin", [loc EXCEPT !.rpath = backups[Len(backups)].backup_path])
    /\ UNCHANGED <<service, factory, files, clock, hist>>

\* restore_from_latest: the newest listed backup, or Err when none is listed
restore_from_latest ==
    /\ pc = "rl_begin"
    /\ \E o \in ReadDirOutcomes :
         /\ Spend(o)
         /\ LET backups == list_backups IN
              IF o # "ok" \/ backups = <<>>
                THEN Fail
                ELSE Goto("rb_begin", [loc EXCEPT !.rpath = backups[1].backup_path])
    /\ UNCHANGED <<service, factory, files, clock, hist>>

\* restore_from_backup without the check that the payload exists
restore_from_backup_begin_Unchecked ==
    /\ pc = "rb_begin"
    /\ Goto("rb_emergency", loc)
    /\ UNCHANGED <<service, factory, files, clock, hist, budget>>

\* restore_from_backup: if !backup_path.exists() { return Err(..) }
restore_from_backup_begin ==
    /\ pc = "rb_begin"
    /\ IF payload[loc.rpath] = Absent THEN Fail ELSE Goto("rb_emergency", loc)
    /\ UNCHANGED <<service, factory, files, clock, hist, budget>>

\* restore_from_backup without its emergency copy
restore_emergency_copy_Skipped ==
    /\ pc = "rb_emergency"
    /\ Goto("rb_copy", loc)
    /\ UNCHANGED <<service, factory, files, clock, hist, budget>>

\* restore_from_backup going on to overwrite the live file after a failed
\* emergency copy
restore_emergency_copy_Unguarded ==
    /\ pc = "rb_emergency"
    /\ IF live = Absent
         THEN Goto("rb_copy", loc) /\ UNCHANGED <<emergency, budget>>
         ELSE \E o \in WriteOutcomes :
                /\ Spend(o)
                /\ emergency' = CASE o = "ok" -> live
                                  [] o = "partial" -> Garbage
                                  [] OTHER -> emergency
                /\ Goto("rb_copy", loc)
    /\ UNCHANGED <<service, factory, live, tmp, dirExists, payload, meta, v1side, clock, hist>>

\* restore_from_backup: the live file, if any, is copied to the emergency path
restore_emergency_copy ==
    /\ pc = "rb_emergency"
    /\ IF live = Absent
         THEN Goto("rb_copy", loc) /\ UNCHANGED <<emergency, budget>>
         ELSE \E o \in WriteOutcomes :
                /\ Spend(o)
                /\ emergency' = CASE o = "ok" -> live
                                  [] o = "partial" -> Garbage
                                  [] OTHER -> emergency
                /\ IF o = "ok" THEN Goto("rb_copy", loc) ELSE Fail
    /\ UNCHANGED <<service, factory, live, tmp, dirExists, payload, meta, v1side, clock, hist>>

\* restore_from_backup: fs::copy(&backup_path, &self.config_path), then Ok(())
restore_copy ==
    /\ pc = "rb_copy"
    /\ \E o \in WriteOutcomes :
         /\ Spend(o)
         /\ live' = CASE o = "ok" -> payload[loc.rpath]
                      [] o = "partial" -> Garbage
                      [] OTHER -> live
         /\ hist' = IF o = "fail" THEN hist
                    ELSE [hist EXCEPT !.pred = live, !.writer = "restore",
                                      !.recovered = (o = "ok" /\ loc.top = "load"),
                                      !.saved = NoDoc, !.migratedTo = NoDoc,
                                      !.streak = 0, !.pre = <<>>]
         /\ IF o # "ok" THEN Fail
            ELSE IF loc.top = "load"
              THEN Goto("ld_read", [loc EXCEPT !.recovering = FALSE, !.restored = TRUE])
              ELSE Done("ok", NoDoc)
    /\ UNCHANGED <<service, factory, tmp, emergency, dirExists, payload, meta, v1side, clock>>

(***************************************************************************)
(* MultiAppConfig::ensure_app, get_manager.                                *)
(***************************************************************************)
\* AppType::as_str
AppTypes == {"claude", "codex"}

\* ensure_app storing a default registry whatever the map holds
ensure_app_Overwrites(d, app) ==
    [d EXCEPT !.apps = [k \in DOMAIN d.apps \cup {app} |->
                          IF k = app THEN DefaultRegistry ELSE d.apps[k]]]

\* ensure_app: if !self.apps.contains_key(..) { self.apps.insert(.., default) }
ensure_app(d, app) ==
    IF app \in DOMAIN d.apps THEN d
    ELSE [d EXCEPT !.apps = [k \in DOMAIN d.apps \cup {app} |->
                               IF k = app THEN DefaultRegistry ELSE d.apps[k]]]

\* get_manager: self.apps.get(app.as_str())
get_manager(d, app) ==
    IF app \in DOMAIN d.apps THEN <<d.apps[app]>> ELSE <<>>

\* an ensure_app that persists the document it changed
ensure_AutoPersist ==
    /\ pc = "idle" /\ budget.ops > 0 /\ mem # NoDoc
    /\ \E app \in AppTypes :
         /\ mem' = ensure_app(mem, app)
         /\ hist' = [Began EXCEPT !.ensPre = mem, !.ensKey = app]
    /\ live' = Serialize(mem')
    /\ ret' = [NoRet EXCEPT !.op = "ensure_app", !.status = "ok"]
    /\ budget' = [budget EXCEPT !.ops = @ - 1]
    /\ UNCHANGED <<service, factory, tmp, emergency, dirExists, payload, meta, v1side, clock, pc, loc>>

\* the application calls ensure_app on the document it holds
ensure ==
    /\ pc = "idle" /\ budget.ops > 0 /\ mem # NoDoc
    /\ \E app \in AppTypes :
         /\ mem' = ensure_app(mem, app)
         /\ hist' = [Began EXCEPT !.ensPre = mem, !.ensKey = app]
    /\ ret' = [NoRet EXCEPT !.op = "ensure_app", !.status = "ok"]
    /\ budget' = [budget EXCEPT !.ops = @ - 1]
    /\ UNCHANGED <<service, factory, files, clock, pc, loc>>

(***************************************************************************)
(* MultiAppConfig::list_backups.                                           *)
(***************************************************************************)
\* MultiAppConfig::list_backups (app_config.rs:175-179): the listing of
\* ConfigBackupManager::list_backups, or the error of fs::read_dir
list ==
    /\ pc = "idle" /\ budget.ops > 0
    /\ \E o \in ReadDirOutcomes :
         /\ budget' = [ops |-> budget.ops - 1,
                       faults |-> IF o = "ok" THEN budget.faults ELSE budget.faults - 1]
         /\ ret' = [op |-> "list", status |-> IF o = "ok" THEN "ok" ELSE "err",
                    doc |-> NoDoc, backups |-> IF o = "ok" THEN list_backups ELSE <<>>,
                    record |-> NoMeta]
    /\ hist' = Began
    /\ UNCHANGED <<service, factory, files, clock, mem, pc, loc>>

(***************************************************************************)
(* MultiAppConfig::load.                                                   *)
(***************************************************************************)
load ==
    /\ pc = "idle" /\ budget.ops > 0
    /\ pc' = "ld_begin"
    /\ loc' = [IdleLoc EXCEPT !.top = "load"]
    /\ ret' = NoRet
    /\ hist' = [Began EXCEPT !.retry = (ret.op = "load" /\ ret.status = "err"
                                         /\ hist.migrated)]
    /\ budget' = [budget EXCEPT !.ops = @ - 1]
    /\ UNCHANGED <<service, factory, files, clock, mem>>

\* a verification that also rejects JSON of neither document shape
verify_config_Schema(o) ==
    IF live = Absent THEN "false"
    ELSE IF o = "ok" /\ (ParseV1(live).ok \/ ParseV2(live).ok) THEN "true" ELSE "err"

\* verify_config: Ok(false) without a file, Err(..) when it cannot be read or
\* is not JSON, Ok(true) otherwise
verify_config(o) ==
    IF live = Absent THEN "false"
    ELSE IF o = "ok" /\ IsJson(live) THEN "true" ELSE "err"

\* load writing the default document to the live path when it finds no file
load_begin_WritesDefault ==
    /\ pc = "ld_begin"
    /\ IF live = Absent
         THEN /\ Done("ok", DefaultDoc)
              /\ live' = Serialize(DefaultDoc)
              /\ UNCHANGED <<hist, budget>>
         ELSE /\ live' = live
              /\ \E o \in Outcomes :
                   /\ Spend(o)
                   /\ IF verify_config(o) = "true"
                        THEN Goto("ld_read", loc) /\ hist' = hist
                        ELSE /\ Goto("rl_begin", [loc EXCEPT !.recovering = TRUE])
                             /\ hist' = [hist EXCEPT !.verifyFailed = TRUE]
    /\ UNCHANGED <<service, factory, tmp, emergency, dirExists, payload, meta, v1side, clock>>

\* load: no file gives the default document; a file that passes
\* verify_config is read; any other is recovered from the newest backup
load_begin ==
    /\ pc = "ld_begin"
    /\ IF live = Absent
         THEN Done("ok", DefaultDoc) /\ UNCHANGED <<hist, budget>>
         ELSE \E o \in Outcomes :
                /\ Spend(o)
                /\ IF verify_config(o) = "true"
                     THEN Goto("ld_read", loc) /\ hist' = hist
                     ELSE /\ Goto("rl_begin", [loc EXCEPT !.recovering = TRUE])
                          /\ hist' = [hist EXCEPT
                                !.verifyFailed = TRUE,
                                !.listed = Len(list_backups),
                                !.newest = IF list_backups = <<>> THEN Absent
                                           ELSE payload[list_backups[1].backup_path],
                                !.usable = \E i \in 1..Len(list_backups) :
                                    \/ ParseV1(payload[list_backups[i].backup_path]).ok
                                    \/ ParseV2(payload[list_backups[i].backup_path]).ok]
    /\ UNCHANGED <<service, factory, files, clock>>

\* a load that takes a text carrying a version field for a v2 document
load_read_ByVersion ==
    /\ pc = "ld_read"
    /\ \E o \in Outcomes :
         /\ Spend(o)
         /\ LET tagged == \E i \in 1..Len(live.entries) : live.entries[i].k = "version"
                isV1 == ParseV1(live).ok /\ ~tagged
            IN /\ hist' = [hist EXCEPT !.migrated = (o = "ok" /\ isV1)]
               /\ IF o # "ok" THEN Done("err", NoDoc)
                  ELSE IF isV1
                    THEN Goto("ld_v1copy",
                              [loc EXCEPT !.saving = MigratedDoc(ParseV1(live).reg)])
                    ELSE IF ParseV2(live).ok THEN Done("ok", ParseV2(live).doc)
                         ELSE Done("err", NoDoc)
    /\ UNCHANGED <<service, factory, files, clock>>

\* a load that answers the default document when the text parses as neither
load_read_DefaultOnParseError ==
    /\ pc = "ld_read"
    /\ \E o \in Outcomes :
         /\ Spend(o)
         /\ hist' = [hist EXCEPT !.migrated = (o = "ok" /\ ParseV1(live).ok)]
         /\ IF o # "ok" THEN Done("err", NoDoc)
            ELSE IF ParseV1(live).ok
              THEN Goto("ld_v1copy", [loc EXCEPT !.saving = MigratedDoc(ParseV1(live).reg)])
              ELSE IF ParseV2(live).ok THEN Done("ok", ParseV2(live).doc)
                   ELSE Done("ok", DefaultDoc)
    /\ UNCHANGED <<service, factory, files, clock>>

\* a load that writes the document it parsed back to the live file
load_read_Normalizing ==
    /\ pc = "ld_read"
    /\ \E o \in Outcomes :
         /\ Spend(o)
         /\ hist' = [hist EXCEPT !.migrated = (o = "ok" /\ ParseV1(live).ok)]
         /\ live' = IF o = "ok" /\ ~ParseV1(live).ok /\ ParseV2(live).ok
                      THEN Serialize(ParseV2(live).doc) ELSE live
         /\ IF o # "ok" THEN Done("err", NoDoc)
            ELSE IF ParseV1(live).ok
              THEN Goto("ld_v1copy", [loc EXCEPT !.saving = MigratedDoc(ParseV1(live).reg)])
              ELSE IF ParseV2(live).ok THEN Done("ok", ParseV2(live).doc)
                   ELSE Done("err", NoDoc)
    /\ UNCHANGED <<service, factory, tmp, emergency, dirExists, payload, meta, v1side, clock>>

\* load: the file is read; a text that parses as the flat v1 registry is
\* migrated, any other is parsed as the v2 document
load_read ==
    /\ pc = "ld_read"
    /\ \E o \in Outcomes :
         /\ Spend(o)
         /\ hist' = [hist EXCEPT !.migrated = (o = "ok" /\ ParseV1(live).ok)]
         /\ IF o # "ok" THEN Done("err", NoDoc)
            ELSE IF ParseV1(live).ok
              THEN Goto("ld_v1copy", [loc EXCEPT !.saving = MigratedDoc(ParseV1(live).reg)])
              ELSE IF ParseV2(live).ok THEN Done("ok", ParseV2(live).doc)
                   ELSE Done("err", NoDoc)
    /\ UNCHANGED <<service, factory, files, clock>>

\* load giving up the migration when the v1 file cannot be copied
load_v1_backup_Aborting ==
    /\ pc = "ld_v1copy"
    /\ \E o \in WriteOutcomes :
         /\ Spend(o)
         /\ v1side' = CASE o = "ok" -> [v1side EXCEPT ![clock] = live]
                        [] o = "partial" -> [v1side EXCEPT ![clock] = Garbage]
                        [] OTHER -> v1side
         /\ hist' = [hist EXCEPT !.v1copy = IF o = "ok" THEN "ok" ELSE "failed"]
         /\ IF o = "ok" THEN Goto("ss_begin", loc) ELSE Done("err", NoDoc)
    /\ UNCHANGED <<service, factory, live, tmp, emergency, dirExists, payload, meta, clock>>

\* load: the v1 file is copied to config.v1.backup.<ts>.json (a failure is
\* logged only), then the migrated document is saved
load_v1_backup ==
    /\ pc = "ld_v1copy"
    /\ \E o \in WriteOutcomes :
         /\ Spend(o)
         /\ v1side' = CASE o = "ok" -> [v1side EXCEPT ![clock] = live]
                        [] o = "partial" -> [v1side EXCEPT ![clock] = Garbage]
                        [] OTHER -> v1side
         /\ hist' = [hist EXCEPT !.v1copy = IF o = "ok" THEN "ok" ELSE "failed"]
    /\ Goto("ss_begin", loc)
    /\ UNCHANGED <<service, factory, live, tmp, emergency, dirExists, payload, meta, clock>>

(***************************************************************************)
(* The environment between two handlers.                                   *)
(***************************************************************************)
\* a second passes
Tick ==
    /\ pc = "idle" /\ budget.ops > 0 /\ clock < LastSecond
    /\ clock' = clock + 1
    /\ ret' = NoRet
    /\ hist' = Forgot
    /\ UNCHANGED <<service, factory, files, mem, pc, loc, budget>>

\* the application changes the document it holds
Mutate ==
    /\ pc = "idle" /\ budget.ops > 0
    /\ \E d \in Docs : d # mem /\ mem' = d
    /\ ret' = NoRet
    /\ hist' = Forgot
    /\ UNCHANGED <<service, factory, files, clock, pc, loc, budget>>

\* another program, or the disk, leaves other bytes in the live file
CorruptLive ==
    /\ pc = "idle" /\ budget.ops > 0 /\ budget.faults > 0
    /\ \E t \in ForeignTexts : t # live /\ live' = t
    /\ hist' = [Forgot EXCEPT !.saved = NoDoc, !.migratedTo = NoDoc,
                              !.streak = 0, !.pre = <<>>]
    /\ budget' = [budget EXCEPT !.faults = @ - 1]
    /\ ret' = NoRet
    /\ UNCHANGED <<service, factory, tmp, emergency, dirExists, payload, meta, v1side, clock, mem, pc, loc>>

\* a backup payload is lost or overwritten, or a sidecar is damaged
DamageBackup ==
    /\ pc = "idle" /\ budget.ops > 0 /\ budget.faults > 0
    /\ \E s \in RecentSeconds :
         \/ /\ payload[s] # Absent
            /\ \E t \in {Absent, Garbage} : t # payload[s] /\ payload' = [payload EXCEPT ![s] = t]
            /\ meta' = meta
         \/ /\ meta[s].state = "ok"
            /\ \E m \in {MalformedMeta, UnreadableMeta} : meta' = [meta EXCEPT ![s] = m]
            /\ payload' = payload
    /\ budget' = [budget EXCEPT !.faults = @ - 1]
    /\ ret' = NoRet
    /\ hist' = Forgot
    /\ UNCHANGED <<service, factory, live, tmp, emergency, dirExists, v1side, clock, mem, pc, loc>>

\* the process is killed between two steps of a handler; the document in
\* memory is lost, the files stay as they are
Crash ==
    /\ pc # "idle" /\ budget.faults > 0
    /\ pc' = "idle"
    /\ loc' = IdleLoc
    /\ ret' = [op |-> loc.top, status |-> "killed", doc |-> NoDoc, backups |-> <<>>,
               record |-> NoMeta]
    /\ mem' = NoDoc
    /\ budget' = [budget EXCEPT !.faults = @ - 1]
    /\ UNCHANGED <<service, factory, files, clock, hist>>

Next ==
    \/ save \/ safe_save_begin
    \/ backup \/ create_backup_begin \/ create_backup_copy \/ create_backup_meta
    \/ cleanup_old_backups_begin \/ cleanup_remove_payload \/ cleanup_remove_meta
    \/ safe_save_write \/ safe_save_verify \/ safe_save_rename
    \/ restore \/ restore_from_latest \/ restore_from_backup_begin
    \/ restore_emergency_copy \/ restore_copy
    \/ load \/ load_begin \/ load_read \/ load_v1_backup
    \/ list \/ ensure
    \/ Tick \/ Mutate \/ CorruptLive \/ DamageBackup \/ Crash

Spec == Init /\ [][Next]_vars

(***************************************************************************)
(* Consecutive saves: an existing live file, no backup yet, and nothing    *)
(* but max_backups + 5 saves of the document in memory, at whatever        *)
(* seconds the clock shows.  No file system call fails.                    *)
(***************************************************************************)
InitRetention ==
    /\ InitCommon
    /\ ServiceNew
    /\ FactoryUntouched
    /\ live = Serialize(DefaultDoc) /\ dirExists = FALSE
    /\ payload = NoBackups /\ meta = NoSidecars
    /\ mem = DocA
    /\ hist = [NoHist EXCEPT !.track = TRUE]
    /\ budget = [ops |-> max_backups + 5, faults |-> 0]

NextRetention ==
    \/ save \/ safe_save_begin
    \/ create_backup_begin \/ create_backup_copy \/ create_backup_meta
    \/ cleanup_old_backups_begin
    \/ safe_save_write \/ safe_save_verify \/ safe_save_rename
    \/ Tick

SpecRetention == InitRetention /\ [][NextRetention]_vars

(***************************************************************************)
(* The helper service (droid2api_service.rs).  Its three commands are      *)
(* async Tauri commands: invocations run at the same time, each in a slot  *)
(* of Threads, and each step below is one of them running between two      *)
(* points where another can be observed (a mutex operation, a blocking     *)
(* call).                                                                  *)
(***************************************************************************)
\* a stop that takes the status mutex first
LockOrder_StopStatusFirst(c) ==
    IF c = "stop" THEN <<"status", "process">> ELSE <<"process", "status">>

\* the first two statements of every command: service.process.lock(), then
\* service.status.lock()
LockOrder(c) == <<"process", "status">>

\* the command returns r; its guards are dropped
Ret(tk, r) == [tk EXCEPT !.pc = "idle", !.todo = <<>>, !.attempts = 0, !.ret = r]
Release(t) == [m \in Mutexes |-> IF locked[m] = t THEN 0 ELSE locked[m]]

\* the front end invokes a command
Invoke(t) ==
    /\ task[t].pc = "idle" /\ issued < MaxCommands
    /\ \E c \in Commands :
         task' = [task EXCEPT ![t] = [IdleTask EXCEPT !.cmd = c, !.pc = "lock",
                                                      !.todo = LockOrder(c)]]
    /\ issued' = issued + 1
    /\ UNCHANGED <<engine, factory, process, status, locked, children>>

\* Mutex::lock: the command blocks until the mutex is free
Acquire(t) ==
    /\ task[t].pc = "lock"
    /\ locked[Head(task[t].todo)] = 0
    /\ locked' = [locked EXCEPT ![Head(task[t].todo)] = t]
    /\ task' = [task EXCEPT ![t].todo = Tail(@),
                            ![t].pc = IF Tail(task[t].todo) = <<>> THEN task[t].cmd
                                      ELSE "lock"]
    /\ UNCHANGED <<engine, factory, process, status, children, issued>>

\* the pid of the next child
NextPid == CHOOSE p \in Pids :
              children[p] = "none" /\ \A q \in Pids : children[q] = "none" => p <= q

\* a start that spawns whatever the status says
start_droid2api_service_Respawning(t) ==
    /\ task[t].pc = "start"
    /\ \/ /\ task' = [task EXCEPT ![t] = Ret(@, ErrResult)]
          /\ locked' = Release(t)
          /\ UNCHANGED <<process, status, children>>
       \/ /\ children' = [children EXCEPT ![NextPid] = "alive"]
          /\ status' = [status EXCEPT !.running = TRUE, !.pid = NextPid]
          /\ process' = NextPid
          /\ locked' = [locked EXCEPT !["status"] = 0]
          /\ task' = [task EXCEPT ![t].pc = "start_wait", ![t].spawned = NextPid]
    /\ UNCHANGED <<engine, factory, issued>>

\* start_droid2api_service, both guards held: a running service is answered
\* with its status; otherwise the directory and node are looked up and the
\* child is spawned (each of which can fail with Err), the status and the
\* handle are stored and the status guard is dropped
start_droid2api_service(t) ==
    /\ task[t].pc = "start"
    /\ IF status.running
         THEN /\ task' = [task EXCEPT ![t] = Ret(@, OkStatus(status))]
              /\ locked' = Release(t)
              /\ UNCHANGED <<process, status, children>>
         ELSE \/ /\ task' = [task EXCEPT ![t] = Ret(@, ErrResult)]
                 /\ locked' = Release(t)
                 /\ UNCHANGED <<process, status, children>>
              \/ /\ children' = [children EXCEPT ![NextPid] = "alive"]
                 /\ status' = [status EXCEPT !.running = TRUE, !.pid = NextPid]
                 /\ process' = NextPid
                 /\ locked' = [locked EXCEPT !["status"] = 0]
                 /\ task' = [task EXCEPT ![t].pc = "start_wait", ![t].spawned = NextPid]
    /\ UNCHANGED <<engine, factory, issued>>

\* start_droid2api_service: one turn of the readiness loop (sleep, probe)
start_wait(t) ==
    /\ task[t].pc = "start_wait"
    /\ IF task[t].attempts < max_attempts
         THEN \E ready \in BOOLEAN :
                task' = IF ready THEN [task EXCEPT ![t].pc = "start_return"]
                        ELSE [task EXCEPT ![t].attempts = @ + 1]
         ELSE task' = [task EXCEPT ![t].pc = "start_return"]
    /\ UNCHANGED <<engine, factory, process, status, locked, children, issued>>

\* start_droid2api_service: the status mutex is taken again and the status
\* is returned
start_return(t) ==
    /\ task[t].pc = "start_return"
    /\ locked["status"] = 0
    /\ task' = [task EXCEPT ![t] = Ret(@, OkStatus(status))]
    /\ locked' = Release(t)
    /\ UNCHANGED <<engine, factory, process, status, children, issued>>

\* Child::kill: a live child is killed; on a child that has already exited
\* the call does nothing and answers Ok or Err
KillOutcomes(p) == IF children[p] = "alive" THEN {"ok"} ELSE {"ok", "err"}

\* stop_droid2api_service, both guards held: the handle is taken out of the
\* mutex and the child killed
stop_droid2api_service(t) ==
    /\ task[t].pc = "stop"
    /\ IF process # 0
         THEN \E k \in KillOutcomes(process) :
                /\ process' = 0
                /\ children' = [children EXCEPT ![process] = "exited"]
                /\ task' = [task EXCEPT ![t].pc = "stop_wait", ![t].child = process,
                                        ![t].killed = k]
         ELSE /\ task' = [task EXCEPT ![t].pc = "stop_update"]
              /\ UNCHANGED <<process, children>>
    /\ UNCHANGED <<engine, factory, status, locked, issued>>

\* stop_droid2api_service: child.wait() blocks until the child has exited
stop_wait(t) ==
    /\ task[t].pc = "stop_wait"
    /\ children[task[t].child] # "alive"
    /\ task' = [task EXCEPT ![t].pc = "stop_update"]
    /\ UNCHANGED <<engine, factory, process, status, locked, children, issued>>

\* stop_droid2api_service: the status is cleared and returned
stop_update(t) ==
    /\ task[t].pc = "stop_update"
    /\ status' = [status EXCEPT !.running = FALSE, !.pid = 0]
    /\ task' = [task EXCEPT ![t] = Ret(@, OkStatus(status'))]
    /\ locked' = Release(t)
    /\ UNCHANGED <<engine, factory, process, children, issued>>

\* Child::try_wait: Ok(Some(_)) for a child that has exited, Ok(None) for a
\* live one, or Err
TryWait(p) == (IF children[p] = "alive" THEN {"running"} ELSE {"exited"}) \cup {"err"}

\* a status poll that leaves the status as it is when try_wait fails
get_droid2api_service_status_StaleOnError(t) ==
    /\ task[t].pc = "get_status"
    /\ IF process # 0
         THEN \E w \in TryWait(process) :
                /\ status' = CASE w = "running" -> [status EXCEPT !.running = TRUE]
                               [] w = "exited" -> [status EXCEPT !.running = FALSE, !.pid = 0]
                               [] OTHER -> status
                /\ process' = IF w = "running" THEN process ELSE 0
         ELSE /\ status' = [status EXCEPT !.running = FALSE, !.pid = 0]
              /\ process' = process
    /\ task' = [task EXCEPT ![t] = Ret(@, OkStatus(status'))]
    /\ locked' = Release(t)
    /\ UNCHANGED <<engine, factory, children, issued>>

\* get_droid2api_service_status, both guards held
get_droid2api_service_status(t) ==
    /\ task[t].pc = "get_status"
    /\ IF process # 0
         THEN \E w \in TryWait(process) :
                /\ status' = IF w = "running" THEN [status EXCEPT !.running = TRUE]
                             ELSE [status EXCEPT !.running = FALSE, !.pid = 0]
                /\ process' = IF w = "running" THEN process ELSE 0
         ELSE /\ status' = [status EXCEPT !.running = FALSE, !.pid = 0]
              /\ process' = process
    /\ task' = [task EXCEPT ![t] = Ret(@, OkStatus(status'))]
    /\ locked' = Release(t)
    /\ UNCHANGED <<engine, factory, children, issued>>

\* the child exits on its own
ChildExits ==
    /\ \E p \in Pids :
         children[p] = "alive" /\ children' = [children EXCEPT ![p] = "exited"]
    /\ UNCHANGED <<engine, factory, process, status, locked, task, issued>>

\* the persistence engine at rest, on a fresh installation
EngineFresh ==
    /\ InitCommon
    /\ live = Absent /\ dirExists = FALSE /\ payload = NoBackups /\ meta = NoSidecars
    /\ mem = NoDoc
    /\ hist = NoHist
    /\ budget = [ops |-> 0, faults |-> 0]

InitService == EngineFresh /\ ServiceNew /\ FactoryUntouched

\* one step of the command in slot t
CommandStep(t) ==
    \/ Acquire(t)
    \/ start_droid2api_service(t) \/ start_wait(t) \/ start_return(t)
    \/ stop_droid2api_service(t) \/ stop_wait(t) \/ stop_update(t)
    \/ get_droid2api_service_status(t)

NextService ==
    \/ \E t \in Threads : Invoke(t)
    \/ \E t \in Threads : Acquire(t)
    \/ \E t \in Threads : start_droid2api_service(t)
    \/ \E t \in Threads : start_wait(t)
    \/ \E t \in Threads : start_return(t)
    \/ \E t \in Threads : stop_droid2api_service(t)
    \/ \E t \in Threads : stop_wait(t)
    \/ \E t \in Threads : stop_update(t)
    \/ \E t \in Threads : get_droid2api_service_status(t)
    \/ ChildExits

SpecService == InitService /\ [][NextService]_vars

\* the runtime keeps running every command that can take a step
SpecServiceLive ==
    InitService /\ [][NextService]_vars /\ \A t \in Threads : WF_vars(CommandStep(t))

(***************************************************************************)
(* read_factory_config, write_factory_config, apply_provider_to_factory.   *)
(***************************************************************************)
\* read_factory_config: no file, or a text that does not deserialize as
\* DroidConfig (unwrap_or_else), gives the empty configuration
read_factory_config(file) == IF file.kind = "config" THEN file.models ELSE <<>>

\* the retain of apply_provider_to_factory: is the model one of the droid models
IsDroidModel(m) ==
    \/ Contains(m.model_display_name, "[droid]")
    \/ Contains(m.model_display_name, "[D]")

\* the custom model built from the provider
CustomModelOf(provider) ==
    DroidCustomModel(unwrap_or(provider.model_display_name, <<"Sonnet", "4.5", "[droid]">>),
                     provider.api_key, "apply")

\* apply_provider_to_factory(provider): read, retain, push, write; the read
\* can fail (Err, nothing written); write_factory_config copies an existing
\* file to config.json.bak and then writes, and either call can fail
apply_provider_to_factory ==
    /\ factory_hist.calls < MaxCalls
    /\ \E provider \in Providers, io \in {"ok", "read_fails", "copy_fails", "write_fails"} :
         LET config == read_factory_config(factory_config)
             kept == SelectSeq(config, LAMBDA m : ~IsDroidModel(m))
             written == ConfigFile(Append(kept, CustomModelOf(provider)))
         IN /\ factory_bak' = IF factory_config.kind # "absent" /\ io \in {"ok", "write_fails"}
                                THEN factory_config ELSE factory_bak
            /\ factory_config' = IF io = "ok" THEN written ELSE factory_config
            /\ factory_ret' = IF io = "ok" THEN "ok" ELSE "err"
            /\ factory_hist' = [factory_hist EXCEPT !.calls = @ + 1,
                                                    !.failed = @ \/ io # "ok"]
    /\ UNCHANGED <<engine, service>>

\* the files the application can find: none, an empty configuration, the
\* user's own models, or a text that is not a DroidConfig (a model entry
\* without one of the required fields)
InitFactory ==
    /\ EngineFresh
    /\ ServiceNew
    /\ \E f \in {NoFile, ConfigFile(<<>>), ConfigFile(<<UserPlain>>),
                 ConfigFile(<<UserTagged, UserPlain>>), NotDroidConfig(<<UserPlain>>)} :
         /\ factory_config = f
         /\ factory_hist = [orig |-> f.models, calls |-> 0, failed |-> FALSE]
    /\ factory_bak = NoFile
    /\ factory_ret = "none"

NextFactory == apply_provider_to_factory

SpecFactory == InitFactory /\ [][NextFactory]_vars

(***************************************************************************)
(* Properties.                                                             *)
(***************************************************************************)
\* some listed backup's payload file holds the text t
HasBackupOf(t) ==
    \E i \in 1..Len(list_backups) : payload[list_backups[i].backup_path] = t

\* the running handler is inside safe_save (create_backup and cleanup included)
InSafeSave ==
    pc \in {"ss_begin", "cb_begin", "cb_copy", "cb_meta", "cu_begin", "cu_payload",
            "cu_meta", "ss_write", "ss_verify", "ss_rename"}

\* the handler has just returned (nothing happened since)
Returned(op, outcome) == pc = "idle" /\ ret.op = op /\ ret.status = outcome

\* C1  Backup-before-overwrite: when a save (safe_save) has just succeeded on
\* a live file that existed, list_backups has an entry whose payload file
\* holds exactly the text the live file held when the save began.
C1_BackupBeforeOverwrite ==
    (pc = "idle" /\ hist.stage = "renamed" /\ ret.status = "ok" /\ hist.savePre # Absent)
        => HasBackupOf(hist.savePre)

\* C1 witness: a save() has replaced an existing live text by another one.
C1_Witness ==
    /\ Returned("save", "ok") /\ hist.stage = "renamed"
    /\ hist.savePre # Absent /\ hist.savePre # live
    /\ HasBackupOf(hist.savePre)

\* C2  Atomicity under interruption: from the moment the temporary file is
\* written until the rename, and after a kill at any of those points, the
\* live file holds the text it held when the save began; inside safe_save
\* the live file changes in the rename step only.
C2_AtomicUnderInterruption ==
    /\ [](hist.stage = "written" => live = hist.savePre)
    /\ [][(InSafeSave /\ live' # live) => pc = "ss_rename"]_vars

\* C2 witness: the process was killed with the temporary file written and
\* the rename not done; the live file still holds the old text.
C2_Witness ==
    /\ Returned("save", "killed") /\ hist.stage = "written"
    /\ tmp # Absent /\ tmp # live /\ live # Absent /\ live = hist.savePre

\* C3  Whenever save() returns an error the live file holds what it held
\* before the call; and a failing file system call inside save() ends the
\* call with that error (it is not swallowed nor replaced by a default).
C3_SaveErrorKeepsLive ==
    /\ [](Returned("save", "err") => (live = hist.opPre /\ ret.doc = NoDoc))
    /\ [][(loc.top = "save" /\ budget'.faults < budget.faults /\ ret'.status # "killed")
            => (pc' = "idle" /\ ret'.op = "save" /\ ret'.status = "err"
                /\ live' = hist.opPre /\ mem' = mem)]_vars

\* C3 witness: a save() on an existing file failed after a truncated write of
\* the temporary file.
C3_Witness ==
    /\ Returned("save", "err") /\ hist.opPre # Absent
    /\ tmp = Garbage /\ live = hist.opPre

\* C4 as claimed: whenever the program has just written the live file (by a
\* save or by a restore) over an earlier text, a listed backup holds that
\* earlier text.  Stated for the executions in which no file system call
\* has failed and nothing but the program has touched the files.
C4_PredecessorAlwaysListed ==
    (pc = "idle" /\ hist.writer \in {"save", "restore"} /\ hist.pred # Absent
     /\ budget.faults = MaxFaults)
        => HasBackupOf(hist.pred)

\* C4 as amended: in safe_save on an existing live file the backup of the
\* old text is listed before the temporary file is written and stays listed
\* until the save returns; a restore leaves the text it replaces in the
\* emergency copy (not in a listed backup).
C4_BackupBeforeWrite ==
    /\ ((pc \in {"ss_write", "ss_verify", "ss_rename"} /\ hist.savePre # Absent)
          => HasBackupOf(hist.savePre))
    /\ ((pc = "idle" /\ hist.writer = "save" /\ hist.pred # Absent)
          => HasBackupOf(hist.pred))
    /\ ((hist.writer = "restore" /\ hist.pred # Absent) => emergency = hist.pred)

\* C4 witness: a restore has just replaced a text no listed backup holds; the
\* emergency copy holds it.
C4_Witness ==
    /\ Returned("restore", "ok") /\ hist.writer = "restore"
    /\ hist.pred # Absent /\ hist.pred # live
    /\ ~HasBackupOf(hist.pred) /\ emergency = hist.pred

RECURSIVE PayloadsOf(_)
PayloadsOf(backups) ==
    IF backups = <<>> THEN <<>>
    ELSE <<payload[Head(backups).backup_path]>> \o PayloadsOf(Tail(backups))

RECURSIVE Reverse(_)
Reverse(q) == IF q = <<>> THEN <<>> ELSE Reverse(Tail(q)) \o <<Head(q)>>

\* C5  Retention cap: after max_backups + 5 consecutive successful saves that
\* began with an existing live file and no backup, list_backups has exactly
\* max_backups entries, and their payloads are the texts the max_backups most
\* recent saves replaced (newest first), whatever second each save ran in.
C5_RetentionCap ==
    (pc = "idle" /\ hist.streak = max_backups + 5)
        => /\ Len(list_backups) = max_backups
           /\ PayloadsOf(list_backups)
                = Reverse(SubSeq(hist.pre, Len(hist.pre) - max_backups + 1, Len(hist.pre)))

\* load() has just returned Ok or Err, and no file system call failed in it
LoadReturned ==
    /\ pc = "idle" /\ ret.op = "load" /\ ret.status \in {"ok", "err"}
    /\ hist.faults0 = budget.faults

\* the document load() makes of a text it accepts
DocumentOf(text) ==
    IF ParseV1(text).ok THEN MigratedDoc(ParseV1(text).reg) ELSE ParseV2(text).doc

\* C6  Round-trip: a load() that follows a successful save(d), the live file
\* still holding what the save wrote, returns Ok with a document equal to d
\* and runs no v1 migration; for any document d (any app keys, any version,
\* with or without the auxiliary manager).
C6_RoundTrip ==
    (LoadReturned /\ hist.saved # NoDoc)
        => (ret.status = "ok" /\ ret.doc = hist.saved /\ ~hist.migrated)

\* C7  Verification gate: a load() that finds the live file present and not
\* JSON returns Ok, with the default document or with the document of the
\* backup it restored; it never returns an error.
C7_VerificationGate ==
    (LoadReturned /\ hist.opPre # Absent /\ ~IsJson(hist.opPre))
        => /\ ret.status = "ok"
           /\ \/ ret.doc = DefaultDoc
              \/ hist.recovered /\ ret.doc = DocumentOf(hist.newest)

\* C8  Self-healing: a load() that finds the live file failing verification
\* while backups are listed (one of them usable) returns Ok, leaves the
\* newest listed backup's payload in the live file, and returns the document
\* parsed from it.
C8_SelfHealing ==
    (LoadReturned /\ hist.verifyFailed /\ hist.listed > 0 /\ hist.usable)
        => /\ ret.status = "ok"
           /\ live = hist.newest
           /\ ParseV2(hist.newest).ok /\ ret.doc = ParseV2(hist.newest).doc

\* C9  When the live file fails verification and restore_from_latest fails
\* (no backup listed, payload missing, copy error), load() returns Ok with
\* the default document: version 2, apps claude and codex with default
\* registries, default mcp, no auxiliary manager.
C9_FailedRecoveryGivesDefault ==
    (pc = "idle" /\ ret.op = "load" /\ ret.status \in {"ok", "err"}
     /\ hist.verifyFailed /\ ~hist.recovered)
        => /\ ret.status = "ok"
           /\ ret.doc.version = 2
           /\ DOMAIN ret.doc.apps = {"claude", "codex"}
           /\ \A k \in DOMAIN ret.doc.apps : ret.doc.apps[k] = DefaultRegistry
           /\ ret.doc.mcp = DefaultMcp
           /\ ret.doc.droid = NoDroid
           /\ mem = ret.doc

\* C9 witness: the newest listed backup has lost its payload; load() gave up
\* the recovery and answered with the default document, the live file as it
\* was.
C9_Witness ==
    /\ Returned("load", "ok") /\ hist.verifyFailed /\ ~hist.recovered
    /\ hist.listed > 0 /\ hist.newest = Absent
    /\ live = hist.opPre /\ ret.doc = DefaultDoc

\* C10  After restore_from_latest succeeds inside load(), the restored live
\* file is verified again before it is parsed: the text load() goes on to
\* parse after a restore is well-formed JSON.
C10_RestoredFileVerified ==
    (pc = "ld_read" /\ loc.restored) => IsJson(live)

\* C11  When no config file exists, load() returns the default document
\* (version 2, apps exactly claude and codex with default registries, default
\* mcp, no auxiliary manager) and creates no file: the live file, the backup
\* directory, the temporary file and every other file stay as they were.
C11_AbsentGivesDefault ==
    [][(pc = "ld_begin" /\ live = Absent /\ ret'.status # "killed")
         => /\ pc' = "idle" /\ ret'.op = "load" /\ ret'.status = "ok"
            /\ ret'.doc.version = 2
            /\ DOMAIN ret'.doc.apps = {"claude", "codex"}
            /\ \A k \in DOMAIN ret'.doc.apps : ret'.doc.apps[k] = DefaultRegistry
            /\ ret'.doc.mcp = DefaultMcp
            /\ ret'.doc.droid = NoDroid
            /\ mem' = ret'.doc
            /\ live' = Absent
            /\ UNCHANGED files]_vars

\* C11 witness: load() on a fresh installation has returned the default
\* document, and there is still no live file, backup directory or temp file.
C11_Witness ==
    /\ Returned("load", "ok") /\ hist.opPre = Absent
    /\ ret.doc = DefaultDoc /\ mem = DefaultDoc
    /\ live = Absent /\ ~dirExists /\ tmp = Absent

\* the text load() read: the live file as found, or the backup it restored
LoadedText == IF hist.recovered THEN hist.newest ELSE hist.opPre

\* C12  v1 migration: a load() (no file system call failing) that reads a
\* text of the flat v1 shape returns Ok with a version 2 document whose
\* apps.claude is the v1 registry and apps.codex a default registry, with
\* default mcp and no auxiliary manager; afterwards the sidecar
\* config.v1.backup.<ts>.json holds the raw v1 text and the live file holds
\* the serialized v2 document.
C12_V1Migration ==
    (LoadReturned /\ IsJson(LoadedText) /\ LoadedText.reg # NoReg)
        => /\ ret.status = "ok"
           /\ ret.doc.version = 2
           /\ DOMAIN ret.doc.apps = {"claude", "codex"}
           /\ ret.doc.apps["claude"] = LoadedText.reg
           /\ ret.doc.apps["codex"] = DefaultRegistry
           /\ ret.doc.mcp = DefaultMcp /\ ret.doc.droid = NoDroid
           /\ v1side[clock] = LoadedText
           /\ live = Serialize(ret.doc)
           /\ ParseV2(live).ok /\ ParseV2(live).doc = ret.doc

\* C12 witness: load() has migrated the v1 file of an earlier release.
C12_Witness ==
    /\ LoadReturned /\ ret.status = "ok" /\ hist.migrated
    /\ hist.opPre = V1Text /\ v1side[clock] = V1Text
    /\ ret.doc.apps["claude"] = "R1" /\ live = Serialize(ret.doc)

\* the load() running (or just returned) began on the very file the last
\* migrating load() wrote
OnMigratedFile ==
    hist.migratedTo # NoDoc /\ hist.opPre = Serialize(hist.migratedTo)

\* C13  Migration is idempotent: a load() (no file system call failing) of
\* the live file a migrating load() wrote returns Ok with a document equal to
\* that load's result, runs no migration, and changes no file: no new v1
\* sidecar, no new backup, the live file not rewritten.
C13_MigrationIdempotent ==
    /\ []((LoadReturned /\ OnMigratedFile)
            => (ret.status = "ok" /\ ret.doc = hist.migratedTo /\ ~hist.migrated
                /\ live = hist.opPre))
    /\ [][(loc.top = "load" /\ OnMigratedFile /\ budget'.faults = hist.faults0)
            => UNCHANGED files]_vars

\* C13 witness: the second load() after a migration has returned the
\* migrated document by the v2 path.
C13_Witness ==
    /\ LoadReturned /\ OnMigratedFile /\ ret.status = "ok"
    /\ ret.doc = hist.migratedTo /\ ~hist.migrated
    /\ \E s \in Seconds : v1side[s] # Absent

\* C14  A failure to copy the raw v1 file to its sidecar does not abort the
\* migration: load() goes on to the save of the v2 document, and (no other
\* failure) returns Ok with it, the live file holding its serialization.
C14_SidecarFailureNotFatal ==
    /\ [][(pc = "ld_v1copy" /\ ret'.status # "killed")
            => (pc' = "ss_begin" /\ loc'.top = "load" /\ loc'.saving = loc.saving)]_vars
    /\ []((pc = "idle" /\ ret.op = "load" /\ ret.status \in {"ok", "err"}
            /\ hist.v1copy = "failed" /\ budget.faults = hist.faults0 - 1)
            => /\ ret.status = "ok"
               /\ ret.doc.version = 2
               /\ ret.doc.apps["claude"] = LoadedText.reg
               /\ live = Serialize(ret.doc))

\* C14 witness: the sidecar copy failed, the migration was saved and returned.
C14_Witness ==
    /\ Returned("load", "ok") /\ hist.v1copy = "failed" /\ hist.migrated
    /\ v1side[clock] # hist.opPre
    /\ hist.opPre = V1Text /\ live = Serialize(ret.doc) /\ ret.doc.apps["claude"] = "R1"

\* C15  After any load() that returns Ok, on every path (file absent,
\* default after a failed recovery, migrated v1, parsed v2, restored from a
\* backup), the returned document's apps has both canonical keys claude and
\* codex.
C15_CanonicalAppsAfterLoad ==
    (pc = "idle" /\ ret.op = "load" /\ ret.status = "ok")
        => {"claude", "codex"} \subseteq DOMAIN ret.doc.apps

\* C16  A document read from disk with a version lower than the current one
\* is never returned as is: no load() returns Ok with version < 2; and the
\* version of the persisted document does not decrease over a load or save.
C16_OldVersionNeverAccepted ==
    /\ (pc = "idle" /\ ret.op = "load" /\ ret.status = "ok")
          => ret.doc.version >= default_version
    /\ (pc = "idle" /\ ret.op \in {"load", "save"} /\ ret.status = "ok"
         /\ ParseV2(hist.opPre).ok /\ ParseV2(live).ok)
          => ParseV2(live).doc.version >= ParseV2(hist.opPre).doc.version

\* C17  ensure_app(app) is idempotent and never overwrites: with an entry
\* for app the document is unchanged; without one, exactly one default
\* registry is inserted under that key and every other entry, the version,
\* mcp and the auxiliary manager are unchanged; a second call changes
\* nothing, and get_manager(app) is present afterwards.
C17_EnsureAppIdempotent ==
    Returned("ensure_app", "ok") =>
        LET d == hist.ensPre
            app == hist.ensKey
        IN /\ (app \in DOMAIN d.apps => mem = d)
           /\ (app \notin DOMAIN d.apps =>
                 /\ DOMAIN mem.apps = DOMAIN d.apps \cup {app}
                 /\ mem.apps[app] = DefaultRegistry
                 /\ \A k \in DOMAIN d.apps : mem.apps[k] = d.apps[k])
           /\ mem.version = d.version /\ mem.mcp = d.mcp /\ mem.droid = d.droid
           /\ ensure_app(mem, app) = mem
           /\ get_manager(mem, app) # <<>>

\* C17 witness: ensure_app has inserted codex beside a claude registry that
\* is not the default one.
C17_Witness ==
    /\ Returned("ensure_app", "ok")
    /\ hist.ensKey = "codex" /\ "codex" \notin DOMAIN hist.ensPre.apps
    /\ hist.ensPre.apps["claude"] = "R1"
    /\ mem.apps["claude"] = "R1" /\ mem.apps["codex"] = DefaultRegistry

\* C18  list_backups returns the records of exactly the well-formed
\* sidecars, each once, sorted by timestamp descending; a malformed or
\* unreadable sidecar is skipped and does not make the call fail (the call
\* fails only when reading the directory fails); the payload files are not
\* consulted; and the result is empty when the backup directory is missing.
C18_ListBackups ==
    /\ Returned("list", "ok") =>
          LET L == ret.backups
              wellFormed == {s \in Seconds : meta[s].state = "ok"}
          IN /\ (~dirExists => L = <<>>)
             /\ (dirExists =>
                   /\ Len(L) = Cardinality(wellFormed)
                   /\ {L[i] : i \in 1..Len(L)} = {meta[s] : s \in wellFormed}
                   /\ \A i, j \in 1..Len(L) : i < j => L[i].timestamp >= L[j].timestamp)
    /\ (pc = "idle" /\ ret.op = "list" /\ hist.faults0 = budget.faults)
          => ret.status = "ok"

\* C18 witness: a listing of several entries, made while one sidecar is
\* malformed or unreadable and the payload of a listed entry is missing.
C18_Witness ==
    /\ Returned("list", "ok") /\ Len(ret.backups) >= 2
    /\ \E s \in Seconds : meta[s].state \in {"malformed", "unreadable"}
    /\ \E i \in 1..Len(ret.backups) : payload[ret.backups[i].backup_path] = Absent

\* the running handler is inside restore_from_backup
InRestore == pc \in {"rb_begin", "rb_emergency", "rb_copy"}

\* C19  restore_from_backup(path): without a payload at path it fails and
\* changes no file.  Otherwise an existing live file is first copied to the
\* emergency path and only then overwritten; on success the live file equals
\* the payload and the emergency copy equals the live text before the call
\* (whatever it held before; untouched when there was no live file); the
\* backup directory is never changed.
C19_RestoreFromBackup ==
    /\ [][(pc = "rb_begin" /\ payload[loc.rpath] = Absent /\ ret'.status # "killed")
            => /\ UNCHANGED files
               /\ pc' = "idle"
               /\ (loc.top = "restore" => ret'.status = "err")]_vars
    /\ []((pc = "rb_copy" /\ hist.opPre # Absent)
            => (emergency = hist.opPre /\ live = hist.opPre))
    /\ [][(pc = "rb_copy" /\ (pc' = "ld_read" \/ (loc.top = "restore" /\ ret'.status = "ok")))
            => /\ live' = payload[loc.rpath]
               /\ (hist.opPre # Absent => emergency' = hist.opPre)]_vars
    /\ [][(InRestore /\ hist.opPre = Absent) => emergency' = emergency]_vars
    /\ [][InRestore => UNCHANGED <<dirExists, payload, meta>>]_vars

\* C19 witness: a restore has replaced the live text by the payload of the
\* backup asked for; the emergency copy holds the text replaced.
C19_Witness ==
    /\ Returned("restore", "ok") /\ hist.opPre # Absent
    /\ live # hist.opPre /\ emergency = hist.opPre
    /\ \E s \in RecentSeconds : payload[s] = live

\* the seconds of the well-formed sidecars list_backups can see
ListedSeconds == IF dirExists THEN {s \in Seconds : meta[s].state = "ok"} ELSE {}

\* C20  restore_from_latest (the listing itself not failing): with an empty
\* listing it fails and leaves every file untouched; otherwise it hands
\* restore_from_backup the backup_path of the listed entry with the greatest
\* timestamp, and the outcome of that call is its outcome (load() goes on to
\* read the file on Ok and answers the default document on Err).
C20_RestoreFromLatest ==
    /\ [][(pc = "rl_begin" /\ budget'.faults = budget.faults)
            => /\ UNCHANGED files
               /\ IF ListedSeconds = {}
                    THEN pc' = "idle" /\ ret'.status = "ok" /\ ret'.doc = DefaultDoc
                         /\ ~hist'.recovered
                    ELSE /\ pc' = "rb_begin"
                         /\ loc'.rpath \in ListedSeconds
                         /\ loc'.rpath = meta[loc'.rpath].backup_path
                         /\ \A s \in ListedSeconds :
                               meta[s].timestamp <= meta[loc'.rpath].timestamp]_vars
    /\ [][(InRestore /\ loc.top = "load" /\ ~InRestore' /\ ret'.status # "killed")
            => \/ pc' = "ld_read" /\ hist'.recovered
               \/ pc' = "idle" /\ ret'.status = "ok" /\ ret'.doc = DefaultDoc
                  /\ ~hist'.recovered]_vars

\* C20 witness: the recovery of load() has picked the newest well-formed
\* sidecar, passing over a newer malformed one, with older ones listed.
C20_Witness ==
    /\ pc = "rb_begin" /\ loc.top = "load" /\ loc.recovering
    /\ loc.rpath \in ListedSeconds
    /\ \E s \in Seconds : s > loc.rpath /\ meta[s].state = "malformed"
    /\ \E t \in ListedSeconds : t < loc.rpath

\* the listed backups whose payload exists and is well-formed JSON
ValidListed == {s \in ListedSeconds : IsJson(payload[s])}

\* C21  When verification of the live file fails, the backup restored is the
\* newest valid one: while a listed backup with a JSON payload exists, the
\* recovery of load() picks the newest such backup, and the file it installs
\* is valid JSON.
C21_NewestValidRestored ==
    /\ (pc = "rb_begin" /\ loc.top = "load" /\ ValidListed # {})
          => /\ loc.rpath \in ValidListed
             /\ \A s \in ValidListed : meta[s].timestamp <= meta[loc.rpath].timestamp
    /\ (pc = "ld_read" /\ loc.restored /\ ValidListed # {}) => IsJson(live)

\* the step in which create_backup returns Ok (its cleanup is done)
CreateBackupReturnsOk ==
    /\ pc \in {"cu_begin", "cu_meta"}
    /\ (pc' = "ss_write" \/ (loc.top = "backup" /\ ret'.status = "ok"))

\* C22  create_backup fails when the live file does not exist, without any
\* side effect (no directory, payload or sidecar created).  When it returns
\* Ok, the payload copy of the live file and the sidecar with the same
\* timestamp both exist in the backup directory; the payload is written
\* before the sidecar.
C22_CreateBackup ==
    /\ [][(pc = "cb_begin" /\ live = Absent /\ ret'.status # "killed")
            => (UNCHANGED files /\ pc' = "idle" /\ ret'.status = "err")]_vars
    /\ [][pc = "cb_copy" => meta' = meta]_vars
    /\ [](pc = "cb_meta" => (payload[loc.ts] = live /\ live # Absent))
    /\ [][CreateBackupReturnsOk
            => /\ dirExists'
               /\ payload'[loc.ts] = live' /\ live' # Absent
               /\ meta'[loc.ts].state = "ok"
               /\ meta'[loc.ts].timestamp = loc.ts
               /\ meta'[loc.ts].backup_path = loc.ts
               /\ meta'[loc.ts].checksum = calculate_checksum(live')]_vars

\* C22 witness: a direct create_backup has returned Ok; the payload and the
\* sidecar of this second are there.
C22_Witness ==
    /\ Returned("backup", "ok") /\ live # Absent
    /\ payload[clock] = live /\ meta[clock].state = "ok" /\ meta[clock].timestamp = clock

\* C23  After every successful create_backup the listing has at most
\* max_backups entries; cleanup deletes only entries ranked beyond the
\* max_backups newest by timestamp, removes both the payload and the sidecar
\* of each entry it deletes, and never deletes the backup just created.
C23_CleanupKeepsNewest ==
    /\ [][CreateBackupReturnsOk
            => /\ Cardinality({s \in Seconds : dirExists' /\ meta'[s].state = "ok"})
                    <= max_backups
               /\ meta'[loc.ts].state = "ok" /\ payload'[loc.ts] # Absent]_vars
    /\ [][(pc \in {"cu_payload", "cu_meta"} /\ (payload' # payload \/ meta' # meta))
            => LET gone == Head(loc.todo) IN
               /\ gone.backup_path # loc.ts
               /\ Cardinality({t \in ListedSeconds :
                                 meta[t].timestamp > gone.timestamp}) >= max_backups
               /\ \A t \in Seconds \ {gone.backup_path} :
                     payload'[t] = payload[t] /\ meta'[t] = meta[t]]_vars
    /\ [][(pc = "cu_meta" /\ budget'.faults = budget.faults)
            => LET gone == Head(loc.todo) IN
               /\ payload'[gone.backup_path] = Absent
               /\ meta'[gone.backup_path].state = "absent"]_vars

\* C23 witness: a save made the eleventh backup; the oldest one is gone,
\* payload and sidecar, and the ten newest are listed.
C23_Witness ==
    /\ Returned("save", "ok") /\ clock > max_backups
    /\ ListedSeconds = (clock - max_backups + 1)..clock
    /\ payload[clock - max_backups] = Absent
    /\ meta[clock - max_backups].state = "absent"
    /\ \A s \in ListedSeconds : payload[s] # Absent

\* C24  The timestamp is a unique id: k successful create_backup calls
\* (k <= max_backups, one per successful save of an existing file, starting
\* without backups) leave k distinct listed backups, and none of them has
\* overwritten the payload or sidecar of an earlier one: the listed payloads
\* are the k texts the saves replaced, newest first.
C24_TimestampUniqueId ==
    (pc = "idle" /\ hist.track /\ hist.streak <= max_backups)
        => /\ Len(list_backups) = hist.streak
           /\ PayloadsOf(list_backups) = Reverse(hist.pre)

\* C25  A retention cleanup that is interrupted or fails between its file
\* deletions leaves only orphans, never a dangling reference: after a save
\* or create_backup that was killed or failed (nothing else having damaged
\* the backups before), every entry list_backups returns has its payload.
C25_NoDanglingReference ==
    (pc = "idle" /\ ret.op \in {"save", "backup"} /\ ret.status \in {"err", "killed"}
     /\ hist.faults0 = MaxFaults)
        => \A i \in 1..Len(list_backups) : payload[list_backups[i].backup_path] # Absent

\* C26 as claimed: save() is the only operation that changes durable state;
\* load() and the accessors (ensure_app among them) never change the content
\* of the live file.  Stated for calls in which no file system call fails
\* and before which nothing has damaged the files.
C26_OnlySaveChangesLive ==
    (pc = "idle" /\ ret.op \in {"load", "ensure_app"} /\ ret.status \in {"ok", "err"}
     /\ hist.faults0 = MaxFaults /\ budget.faults = MaxFaults)
        => live = hist.opPre

\* C26 as amended: the accessors and the in-memory mutations change no file
\* (a mutation is on disk only after an explicit save); load() changes the
\* live file in two places only, the restore of its recovery (verification
\* failed) and the save of a v1 migration, and a load() that neither
\* recovers nor migrates leaves the live file as it found it.
C26_NoAutoPersist ==
    /\ [][(pc = "idle" /\ pc' = "idle" /\ (mem' # mem \/ ret'.op = "ensure_app"))
            => UNCHANGED files]_vars
    /\ [][(loc.top = "load" /\ live' # live)
            => \/ pc = "rb_copy" /\ hist.verifyFailed
               \/ pc = "ss_rename" /\ hist.migrated]_vars
    /\ []((pc = "idle" /\ ret.op = "load" /\ ret.status \in {"ok", "err"}
            /\ ~hist.verifyFailed /\ ~hist.migrated)
            => live = hist.opPre)

\* C26 witness: a load() has rewritten the live file (the v1 migration),
\* while the document the application then changed in memory is not on disk.
C26_Witness ==
    /\ Returned("ensure_app", "ok") /\ mem # hist.ensPre
    /\ hist.migratedTo # NoDoc /\ live = Serialize(hist.migratedTo)
    /\ live = hist.opPre /\ ParseV2(live).doc # mem

\* the text parses neither as the v1 registry nor as the v2 document
Unparseable(text) == ~ParseV1(text).ok /\ ~ParseV2(text).ok

\* C27 as claimed: load() (no file system call failing) returns an error
\* exactly when the file exists, fails verification, no listed backup is
\* usable and the content parses neither as v1 nor as v2; in all other cases
\* it returns a document.
C27_ErrorOnlyWhenUnrecoverable ==
    LoadReturned =>
        (ret.status = "err" <=>
            (hist.opPre # Absent /\ hist.verifyFailed /\ ~hist.usable
             /\ Unparseable(hist.opPre)))

\* C27 as amended: load() (no file system call failing) returns an error
\* exactly when the text it goes on to parse, the live file that passed
\* verification or the backup it restored, parses neither as v1 nor as v2;
\* when verification fails and the restore fails it returns the default
\* document; every Ok carries a document.
C27_ErrorIffUnparseable ==
    LoadReturned =>
        /\ ret.status = "err" <=>
              (hist.opPre # Absent /\ (~hist.verifyFailed \/ hist.recovered)
               /\ Unparseable(LoadedText))
        /\ (hist.verifyFailed /\ ~hist.recovered)
              => (ret.status = "ok" /\ ret.doc = DefaultDoc)
        /\ ret.status = "ok" => ret.doc # NoDoc

\* C27 witness: the live file is not JSON and no backup is listed; load()
\* has answered Ok with the default document, not an error.
C27_Witness ==
    /\ LoadReturned /\ hist.verifyFailed /\ hist.listed = 0 /\ ~hist.usable
    /\ hist.opPre = Garbage /\ live = Garbage
    /\ ret.status = "ok" /\ ret.doc = DefaultDoc

\* the text has the flat v1 shape (the top-level registry fields)
HasV1Shape(text) == IsJson(text) /\ text.reg # NoReg

\* C28  Format discrimination is structural and ordered: a text that parses
\* as the flat v1 registry is migrated whatever version field or other
\* members it carries; the v2 parse decides only when the v1 parse fails.
C28_StructuralDiscrimination ==
    /\ [][(pc = "ld_read" /\ budget'.faults = budget.faults /\ HasV1Shape(live))
            => /\ pc' = "ld_v1copy" /\ hist'.migrated
               /\ loc'.saving.version = 2
               /\ DOMAIN loc'.saving.apps = {"claude", "codex"}
               /\ loc'.saving.apps["claude"] = live.reg
               /\ loc'.saving.apps["codex"] = DefaultRegistry]_vars
    /\ [][(pc = "ld_read" /\ budget'.faults = budget.faults /\ ~HasV1Shape(live))
            => /\ pc' = "idle" /\ ~hist'.migrated
               /\ IF ParseV2(live).ok
                    THEN ret'.status = "ok" /\ ret'.doc = ParseV2(live).doc
                    ELSE ret'.status = "err"]_vars

\* C28 witness: a v1 registry carrying "version": 2 and a claude member is
\* being migrated; the registry, not the member, became apps.claude.
C28_Witness ==
    /\ pc = "ld_v1copy" /\ live = HybridText
    /\ \E i \in 1..Len(live.entries) : live.entries[i].k = "version"
    /\ loc.saving.version = 2 /\ loc.saving.apps["claude"] = "R1"

SchemaUnrecognized(text) == IsJson(text) /\ Unparseable(text)

\* C30  When the live file is well-formed JSON of neither the v1 nor the v2
\* shape, load() (no file system call failing) returns an error: it passes
\* verification, attempts no recovery, does not answer the default document,
\* and changes neither the live file nor any other file.
C30_UnrecognizedSchemaIsError ==
    /\ []((LoadReturned /\ SchemaUnrecognized(hist.opPre))
            => /\ ret.status = "err" /\ ret.doc = NoDoc
               /\ ~hist.verifyFailed /\ ~hist.recovered /\ ~hist.migrated
               /\ live = hist.opPre)
    /\ [][(loc.top = "load" /\ SchemaUnrecognized(hist.opPre)
            /\ budget'.faults = hist.faults0)
            => UNCHANGED files]_vars

\* C30 witness: load() has returned an error on such a file although ten
\* valid backups are listed; the file is still there.
C30_Witness ==
    /\ LoadReturned /\ hist.opPre = OtherJson /\ live = OtherJson
    /\ ret.status = "err"
    /\ Len(list_backups) = max_backups
    /\ \A i \in 1..Len(list_backups) : ParseV2(payload[list_backups[i].backup_path]).ok

\* C31  Crash safety of restore: at every point of restore_from_backup on an
\* existing live file, and after every step of it (its return, its failure
\* and a kill of the process included), the complete text the live file held
\* before the restore is in the live file or in the emergency copy; the live
\* file is written only by the final copy, after the emergency copy was
\* completed; a failed emergency copy ends the restore with the live file
\* unchanged.
C31_RestoreCrashSafe ==
    /\ []((InRestore /\ hist.opPre # Absent)
            => (live = hist.opPre \/ emergency = hist.opPre))
    /\ [][(InRestore /\ hist.opPre # Absent)
            => (live' = hist.opPre \/ emergency' = hist.opPre)]_vars
    /\ [][(InRestore /\ live' # live)
            => (pc = "rb_copy" /\ (hist.opPre # Absent => emergency = hist.opPre))]_vars
    /\ [][(pc = "rb_emergency" /\ live # Absent /\ budget'.faults < budget.faults
           /\ ret'.status # "killed")
            => /\ live' = live /\ pc' = "idle"
               /\ (loc.top = "restore" => ret'.status = "err")]_vars

\* C31 witness: the final copy of a restore failed after truncating the live
\* file; the emergency copy holds the complete text from before the restore.
C31_Witness ==
    /\ Returned("restore", "err") /\ hist.opPre # Absent /\ IsJson(hist.opPre)
    /\ live = Garbage /\ emergency = hist.opPre

\* every listed entry carries the size and checksum of the payload file now
\* stored at its backup_path
SidecarsMatchPayloads ==
    \A i \in 1..Len(list_backups) :
        LET m == list_backups[i] IN
        /\ payload[m.backup_path] # Absent
        /\ m.file_size = FileSize(payload[m.backup_path])
        /\ m.checksum = calculate_checksum(payload[m.backup_path])

\* C32  Metadata consistency: after any sequence of successful create_backup
\* calls (direct or inside a save, calls within one clock second included;
\* nothing having failed or damaged a file), every entry of list_backups has
\* the file_size and checksum of the payload file now at its backup_path,
\* and the record create_backup returns is the sidecar written for it.
C32_MetadataConsistency ==
    /\ (pc = "idle" /\ budget.faults = MaxFaults) => SidecarsMatchPayloads
    /\ Returned("backup", "ok")
          => /\ ret.record.state = "ok"
             /\ ret.record = meta[ret.record.timestamp]
             /\ ret.record.timestamp = clock

\* C32 witness: a save and then a create_backup fell in the second of an
\* earlier backup; its payload was overwritten by another text, and the
\* sidecar carries the checksum of the new payload.
C32_Witness ==
    /\ Returned("backup", "ok") /\ budget.faults = MaxFaults
    /\ clock = max_backups /\ Len(list_backups) = max_backups
    /\ payload[clock] = live /\ live # Serialize(DefaultDoc)
    /\ ret.record.checksum = calculate_checksum(live)
    /\ ret.record = meta[clock]

\* C33  A load() on a live file that passes verification and parses as the
\* v2 document is read-only: no step of it changes the live file, the backup
\* directory (payloads and sidecars), the emergency copy, the temporary file
\* or a v1 sidecar, whether the read that follows succeeds or fails, and it
\* returns with every file as it found it.
C33_V2LoadReadOnly ==
    /\ [][(loc.top = "load" /\ ParseV2(hist.opPre).ok /\ ~hist'.verifyFailed)
            => UNCHANGED files]_vars
    /\ []((pc = "idle" /\ ret.op = "load" /\ ret.status \in {"ok", "err"}
            /\ ParseV2(hist.opPre).ok /\ ~hist.verifyFailed)
            => (live = hist.opPre /\ ~hist.migrated /\ ~hist.recovered))

\* C33 witness: load() has returned the document of a v2 file that is not
\* in canonical form (older version tag, no codex, no mcp member); the file
\* is as it was, ten backups are listed and no other file was written.
C33_Witness ==
    /\ Returned("load", "ok") /\ ~hist.verifyFailed
    /\ hist.opPre = OldTagged /\ live = OldTagged
    /\ ret.doc = ParseV2(live).doc /\ Serialize(ret.doc) # live
    /\ Len(list_backups) = max_backups
    /\ tmp = Absent /\ emergency = Absent /\ v1side = NoBackups

\* C34  When the safe_save at the end of a v1 migration fails, load() returns
\* the error and no document, and the live file still holds the v1 text;
\* the load() that follows runs the migration again.  When it succeeds, a
\* listed backup holds the v1 text the migration replaced.
C34_MigrationSaveFailure ==
    /\ [][(loc.top = "load" /\ InSafeSave /\ pc' = "idle"
           /\ ret'.status \notin {"ok", "killed"})
            => /\ ret'.status = "err" /\ ret'.doc = NoDoc /\ mem' = mem
               /\ live' = live /\ ParseV1(live').ok /\ hist.migrated]_vars
    /\ [][(loc.top = "load" /\ InSafeSave /\ budget'.faults < budget.faults
           /\ ret'.status # "killed")
            => (pc' = "idle" /\ ret'.status = "err")]_vars
    /\ [][(pc = "ld_read" /\ hist.retry /\ budget'.faults = budget.faults)
            => /\ pc' = "ld_v1copy" /\ hist'.migrated
               /\ loc'.saving = MigratedDoc(ParseV1(live).reg)]_vars
    /\ []((Returned("load", "ok") /\ hist.migrated)
            => (ParseV1(hist.savePre).ok /\ HasBackupOf(hist.savePre)
                /\ live = Serialize(ret.doc)))

\* C34 witness: a load() whose migration save had failed was followed by a
\* load() that migrated the same v1 file again and saved the document; the
\* v1 text is in a listed backup.
C34_Witness ==
    /\ Returned("load", "ok") /\ hist.retry /\ hist.migrated
    /\ hist.opPre = V1Text /\ live = Serialize(MigratedDoc("R1"))
    /\ HasBackupOf(V1Text)

\* C35  After every successful save() the live file passes verify_config
\* (it is well-formed JSON, the serialization of the document saved) and the
\* temporary file does not exist; only safe_save writes the temporary file,
\* and it is left behind only by a save that failed or was killed; a later
\* successful save overwrites it with its own text and removes it.
C35_SavedFileVerifiedNoTemp ==
    /\ [](Returned("save", "ok")
            => /\ live = Serialize(hist.saved) /\ IsJson(live)
               /\ verify_config("ok") = "true"
               /\ tmp = Absent)
    /\ []((Returned("load", "ok") /\ hist.migrated)
            => (live = Serialize(hist.migratedTo) /\ tmp = Absent))
    /\ [][tmp' # tmp => pc \in {"ss_write", "ss_rename"}]_vars
    /\ [][(pc = "ss_write" /\ budget'.faults = budget.faults)
            => tmp' = Serialize(loc.saving)]_vars
    /\ [][(InSafeSave /\ loc.top # "backup" /\ pc' = "idle" /\ tmp' # Absent)
            => ret'.status \in {"err", "killed"}]_vars
    /\ []((pc = "idle" /\ tmp # Absent) => budget.faults < MaxFaults)

\* C35 witness: a save that began with the temporary file of a failed save
\* lying there has succeeded; the live file is its document and the
\* temporary file is gone.
C35_Witness ==
    /\ Returned("save", "ok") /\ hist.tmpPre # Absent
    /\ live = Serialize(hist.saved) /\ live # hist.opPre /\ live # hist.tmpPre
    /\ tmp = Absent

\* no command of the helper service is executing
NoCommandRuns == \A t \in Threads : task[t].pc = "idle"

\* C36  Helper-service state consistency: after any sequence of start, stop
\* and get-status commands, whenever no command is executing, status.running
\* is true exactly when a child handle is stored, and status.pid is present
\* exactly when running is true.
C36_StatusMatchesHandle ==
    NoCommandRuns
        => /\ status.running <=> process # 0
           /\ status.pid # 0 <=> status.running
           /\ status.running => status.pid = process

\* C36 witness: the child exited on its own after a start, and a status poll
\* has cleared the handle, running and pid together.
C36_Witness ==
    /\ NoCommandRuns /\ issued >= 2
    /\ \E t \in Threads : task[t].cmd = "get_status" /\ task[t].ret.kind = "ok"
                          /\ ~task[t].ret.status.running
    /\ \E p \in Pids : children[p] = "exited"
    /\ process = 0 /\ ~status.running /\ status.pid = 0

\* the command in slot t takes a step
Steps(t) == task'[t] # task[t]

\* C37  start is idempotent while the service is marked running: a start
\* that finds status.running spawns no process and returns the status
\* unchanged; a handle is stored only by a spawning start and only when none
\* is stored, so at most one child is tracked; when stop returns, running is
\* false, pid is absent and no handle is stored, whether or not the kill
\* succeeded.
C37_StartIdempotentStopClears ==
    /\ [][\A t \in Threads :
            (task[t].pc = "start" /\ status.running /\ Steps(t))
              => /\ children' = children /\ process' = process /\ status' = status
                 /\ task'[t].pc = "idle" /\ task'[t].ret = OkStatus(status)]_vars
    /\ [][(process' # process /\ process' # 0)
            => /\ process = 0 /\ children[process'] = "none"
               /\ children'[process'] = "alive"
               /\ \E t \in Threads : task[t].pc = "start" /\ Steps(t)]_vars
    /\ [][\A t \in Threads :
            (task[t].cmd = "stop" /\ task[t].pc # "idle" /\ task'[t].pc = "idle")
              => /\ ~status'.running /\ status'.pid = 0 /\ process' = 0
                 /\ task'[t].ret = OkStatus(status')]_vars

\* C37 witness: a second start returned the running status without spawning;
\* later the child exited, the kill of a stop failed, and the stop has
\* returned with the status cleared and no handle stored.
C37_Witness ==
    /\ NoCommandRuns
    /\ \E t1, t2 \in Threads :
         /\ task[t1].cmd = "stop" /\ task[t1].killed = "err" /\ task[t1].ret.kind = "ok"
         /\ task[t2].cmd = "start" /\ task[t2].spawned = 0
         /\ task[t2].ret.kind = "ok" /\ task[t2].ret.status.running
    /\ process = 0 /\ ~status.running /\ status.pid = 0

\* the command in slot t is blocked on mutex m
WaitsFor(t, m) ==
    \/ task[t].pc = "lock" /\ Head(task[t].todo) = m
    \/ task[t].pc = "start_return" /\ m = "status"

\* C38  Deadlock freedom of the helper-service commands: in every
\* interleaving a command holds the status mutex only while it holds the
\* process mutex and never waits for the process mutex while holding the
\* status mutex (start drops and retakes the status mutex under the process
\* mutex), no two commands wait on each other in a cycle, and every command
\* invoked eventually returns.
C38_DeadlockFree ==
    /\ [](\A t \in Threads : locked["status"] = t => locked["process"] = t)
    /\ [](\A t \in Threads : WaitsFor(t, "process") => locked["status"] # t)
    /\ [](\A t \in Threads : (task[t].pc = "start_return") => locked["process"] = t)
    /\ [](~\E t1, t2 \in Threads, m1, m2 \in Mutexes :
             /\ t1 # t2
             /\ WaitsFor(t1, m1) /\ locked[m1] = t2
             /\ WaitsFor(t2, m2) /\ locked[m2] = t1)
    /\ \A t \in Threads : (task[t].pc # "idle") ~> (task[t].pc = "idle")

\* C38 witness: a start is in its readiness loop, holding the process mutex
\* with the status mutex dropped, and another command waits for the process
\* mutex.
C38_Witness ==
    \E t1, t2 \in Threads :
        /\ task[t1].pc = "start_wait" /\ task[t1].attempts > 0
        /\ locked["process"] = t1 /\ locked["status"] = 0
        /\ WaitsFor(t2, "process")

\* the models of the Factory configuration file
FactoryModels == factory_config.models

\* C39  apply_provider_to_factory removes the droid models first to avoid
\* duplicates: after any sequence of calls that all succeeded, with any
\* providers, custom_models holds at most one model made by
\* apply_provider_to_factory, the one of the last call, in the last place,
\* and the models it did not make are all there in their original order.
C39_SingleAppliedModel ==
    (factory_ret = "ok" /\ ~factory_hist.failed)
        => /\ Len(SelectSeq(FactoryModels, LAMBDA m : m.by = "apply")) <= 1
           /\ FactoryModels[Len(FactoryModels)].by = "apply"
           /\ SelectSeq(FactoryModels, LAMBDA m : m.by = "user") = factory_hist.orig

====
